---------------------------- MODULE Spec2Model ----------------------------
(***************************************************************************)
(* Model of the Categorizer ranking core: the brute-force vector index of  *)
(* package categorizer (InMemoryIndex), the configuration sanitizers, the  *)
(* ranking services (categorizer.Service and app.Service), the batch       *)
(* drivers and the confidence classifier.                                  *)
(*                                                                         *)
(* Numbers.  float32 scores, weights and thresholds are fixed-point        *)
(* integers in hundredths (Scale = 100): 0.45 is 45, 1.0 is 100.           *)
(***************************************************************************)
EXTENDS Integers, Sequences, FiniteSets, TLC

(***************************************************************************)
(* Bounds of the model.                                                    *)
(***************************************************************************)
MaxItems == 4
MaxK == 4
MaxReplace == 2

(***************************************************************************)
(* Fixed-point representation of float32.                                  *)
(***************************************************************************)
Scale == 100

Min(a, b) == IF a < b THEN a ELSE b
Max(a, b) == IF a > b THEN a ELSE b

Range(s) == {s[i] : i \in DOMAIN s}

\* Go compares strings bytewise; the model's labels are single lower-case
\* letters, ordered as in the alphabet.
Alphabet == <<"a", "b", "c", "d", "e", "f">>
StringRank(s) == CHOOSE i \in DOMAIN Alphabet : Alphabet[i] = s
StringLess(a, b) == StringRank(a) < StringRank(b)

\* The labels a store of at most MaxItems items can hold.
Labels == {Alphabet[i] : i \in 1..Min(MaxItems, Len(Alphabet))}

\* Embedding vectors (two components are enough to give equal, different
\* and negative similarities).
QueryVecs == {<<1, 1>>, <<0, 1>>}
ItemVecs == {<<1, 0>>, <<1, 1>>}

(***************************************************************************)
(* cosineSimilarity (categorizer/index.go): dot / (sqrt(na) * sqrt(nb))    *)
(* over the first min(len) components, 0 for an empty or zero-norm vector. *)
(***************************************************************************)
RECURSIVE SqrtSearch(_, _, _)
SqrtSearch(lo, hi, t) ==
    IF lo >= hi THEN lo
    ELSE LET mid == (lo + hi + 1) \div 2
         IN  IF mid * mid <= t THEN SqrtSearch(mid, hi, t)
             ELSE SqrtSearch(lo, mid - 1, t)

\* math.Sqrt in fixed point: floor(Scale * sqrt(v)).
sqrtFloat64(v) == SqrtSearch(0, Scale * (v + 1), v * Scale * Scale)

RECURSIVE DotN(_, _, _)
DotN(a, b, n) == IF n = 0 THEN 0 ELSE a[n] * b[n] + DotN(a, b, n - 1)

cosineSimilarity(a, b) ==
    IF Len(a) = 0 \/ Len(b) = 0 THEN 0
    ELSE LET n == Min(Len(a), Len(b))
             dot == DotN(a, b, n)
             na == DotN(a, a, n)
             nb == DotN(b, b, n)
         IN  IF na = 0 \/ nb = 0 THEN 0
             ELSE (dot * Scale * Scale * Scale)
                    \div (sqrtFloat64(na) * sqrtFloat64(nb))

(***************************************************************************)
(* hitMinHeap and container/heap (categorizer/index.go 126-156).           *)
(* Heap positions are 0-based as in Go; h[i + 1] is Go's h[i].             *)
(***************************************************************************)
HeapLess(h, i, j) ==
    IF h[i + 1].Score = h[j + 1].Score
    THEN StringLess(h[j + 1].Label, h[i + 1].Label)
    ELSE h[i + 1].Score < h[j + 1].Score

HeapSwap(h, i, j) == [h EXCEPT ![i + 1] = h[j + 1], ![j + 1] = h[i + 1]]

RECURSIVE HeapUp(_, _)
HeapUp(h, j) ==
    LET i == (j - 1) \div 2
    IN  IF j = 0 \/ i = j \/ ~HeapLess(h, j, i) THEN h
        ELSE HeapUp(HeapSwap(h, i, j), i)

RECURSIVE HeapDown(_, _, _)
HeapDown(h, i, n) ==
    LET j1 == 2 * i + 1
    IN  IF j1 >= n THEN h
        ELSE LET j == IF j1 + 1 < n /\ HeapLess(h, j1 + 1, j1) THEN j1 + 1 ELSE j1
             IN  IF ~HeapLess(h, j, i) THEN h
                 ELSE HeapDown(HeapSwap(h, i, j), j, n)

HeapPush(h, x) == HeapUp(Append(h, x), Len(h))

\* heap.Pop: swap the root with the last element, sift down, cut the last.
HeapPopRest(h) ==
    LET n == Len(h) - 1
    IN  SubSeq(HeapDown(HeapSwap(h, 0, n), 0, n), 1, n)
HeapPopItem(h) == h[1]

hitBetterTiesIgnored(a, b) == a.Score > b.Score
hitBetter(a, b) ==
    IF a.Score = b.Score THEN StringLess(a.Label, b.Label)
    ELSE a.Score > b.Score

\* One iteration of Search's loop over the items (index.go 92-109).
SearchOffer(h, it, vec, k) ==
    LET candidate == [Label |-> it.Label, Score |-> cosineSimilarity(vec, it.Vector),
                      Source |-> it.Source, Vector |-> it.Vector]
    IN  IF Len(h) < k THEN HeapPush(h, candidate)
        ELSE IF hitBetter(candidate, h[1])
             THEN HeapPush(HeapPopRest(h), candidate)
             ELSE h

\* hits[i] = heap.Pop(hitHeap) for every i (index.go 113-116).
RECURSIVE HeapDrain(_)
HeapDrain(h) ==
    IF Len(h) = 0 THEN <<>>
    ELSE <<HeapPopItem(h)>> \o HeapDrain(HeapPopRest(h))

\* sort.Slice with the comparator of index.go 117-122 (insertion sort; the
\* order is total on hits with different labels, so any sort gives this).
SortBefore(a, b) ==
    IF a.Score = b.Score THEN StringLess(a.Label, b.Label)
    ELSE a.Score > b.Score

RECURSIVE InsertHit(_, _)
InsertHit(s, x) ==
    IF Len(s) = 0 THEN <<x>>
    ELSE IF SortBefore(x, s[1]) THEN <<x>> \o s
         ELSE <<s[1]>> \o InsertHit(Tail(s), x)

RECURSIVE SortHits(_)
SortHits(s) == IF Len(s) = 0 THEN <<>> ELSE InsertHit(SortHits(Tail(s)), s[1])

\* The k the loop runs with (index.go 84-89); 0 stands for the early return.
SearchK(items, vec, k) ==
    IF Len(items) = 0 \/ Len(vec) = 0 \/ k <= 0 THEN 0
    ELSE Min(k, Len(items))

RECURSIVE SearchScanAll(_, _, _, _, _)
SearchScanAll(h, items, i, vec, k) ==
    IF i > Len(items) THEN h
    ELSE SearchScanAll(SearchOffer(h, items[i], vec, k), items, i + 1, vec, k)

\* InMemoryIndex.Search on one snapshot of the items.
Search(items, vec, k) ==
    LET kk == SearchK(items, vec, k)
    IN  IF kk = 0 THEN <<>>
        ELSE SortHits(HeapDrain(SearchScanAll(<<>>, items, 1, vec, kk)))

(***************************************************************************)
(* State.                                                                  *)
(*   arrays    the backing arrays Replace has allocated (Go heap)          *)
(*   idxItems  idx.items: the position in arrays of the current array      *)
(*   idxMu     idx.mu: "free" or "w" (Replace holds the write lock)        *)
(*   wr        the goroutine running Replace                               *)
(*   rd        the goroutine running Search                                *)
(*   hist      the item lists handed to Replace so far (and the initial)   *)
(*   svcCfg    app.Service.cfg                                             *)
(*   catCfg    categorizer.Service.cfg                                     *)
(*   catIn     the config last handed to categorizer NewService or         *)
(*             UpdateConfig, as the caller wrote it                        *)
(*   seedsIdx  the items of categorizer.Service.seedsIdx                   *)
(*   ndcIdx    the items of categorizer.Service.ndcIdx                     *)
(*   catRow    the last call of categorizer.Service.rankForVector          *)
(*   review    the last call of needReview: its arguments and result       *)
(*   candsCat  app.Service.candsCat (seedVec maps its labels to its Vecs)  *)
(*   candsNDC  app.Service.candsNDC (ndcVec likewise)                      *)
(*   cacheMem  embedCache.m: the embeddings held in memory                 *)
(*   cacheFiles the embeddings saved under the cache directory             *)
(*   call      the goroutine running app.Service.RankOne: its position and *)
(*             its local variables                                         *)
(*   batch     one batch classification: the driver running it, its input  *)
(*             texts, loop position, result slots, workers and outcome     *)
(*   fnCall    one call of a function that reads no service state: its     *)
(*             arguments and its result                                    *)
(*   insts     the running service processes that share the cache          *)
(*             directories: each one's kind, model id, in-memory cache and *)
(*             the position and locals of its current embedding call       *)
(*   disk      the files under the cache directories, word by word         *)
(*   crashes   the number of process crashes so far                        *)
(*   calls     the number of embedding calls started so far                *)
(*   emb       one embedder shared by the goroutines of a process: its     *)
(*             kind, encoder, in-memory cache (each entry with the slice   *)
(*             it holds), the keys saved on disk and the slices allocated  *)
(*   gor       the goroutines calling that embedder: each one's position   *)
(*             and locals                                                  *)
(*   loader    which service loads labels: "cat" (categorizer.Service),    *)
(*             "app" (app.Service) or "v0" (the first GUI's service)       *)
(*   jobs      the goroutines applySeeds has started, in the order of the  *)
(*             requests: each one's labels, position and locals            *)
(*   upd       the last call of app.Service.UpdateCategories               *)
(*   build     the call of buildCandidates: its two goroutines, the stores *)
(*             of the service under construction and the error returned    *)
(*   ruleSvc   app.Service: the rule file its cfg names and the file its   *)
(*             categoryRules were compiled from                            *)
(*   cfgUpd    the goroutine running UpdateConfig with a rule file         *)
(*   ruleSnap  what the last RankOne copied under the read lock            *)
(***************************************************************************)
VARIABLES arrays, idxItems, idxMu, wr, rd, hist, svcCfg, catCfg, catIn,
          seedsIdx, ndcIdx, catRow, review,
          candsCat, candsNDC, cacheMem, cacheFiles, call, batch, fnCall,
          insts, disk, crashes, calls,
          emb, gor,
          loader, jobs, upd, build,
          ruleSvc, cfgUpd, ruleSnap

idxVars == <<arrays, idxItems, idxMu, wr, rd, hist>>
cfgVars == <<svcCfg, catCfg, catIn>>
rankVars == <<seedsIdx, ndcIdx, catRow>>
revVars == <<review>>
appVars == <<candsCat, candsNDC, cacheMem, cacheFiles, call>>
batVars == <<batch>>
pureVars == <<fnCall>>
diskVars == <<insts, disk, crashes, calls>>
embVars == <<emb, gor>>
loadVars == <<loader, jobs, upd, build>>
ruleVars == <<ruleSvc, cfgUpd, ruleSnap>>
vars == <<idxVars, cfgVars, rankVars, revVars, appVars, batVars, pureVars,
         diskVars,
         embVars,
         loadVars,
         ruleVars>>

\* What the actions of one component leave alone.
nonIdxVars == <<cfgVars, rankVars, revVars, appVars, batVars, pureVars,
               diskVars, embVars, loadVars, ruleVars>>
nonCfgVars == <<idxVars, rankVars, revVars, appVars, batVars, pureVars,
               diskVars, embVars, loadVars, ruleVars>>
nonRankVars == <<idxVars, revVars, appVars, batVars, pureVars,
               diskVars, embVars, loadVars, ruleVars>>
nonRevVars == <<idxVars, cfgVars, rankVars, appVars, batVars, pureVars,
               diskVars, embVars, loadVars, ruleVars>>
nonAppVars == <<idxVars, catCfg, catIn, rankVars, revVars, batVars, pureVars,
               diskVars, embVars, loadVars, ruleVars>>
nonBatVars == <<idxVars, cfgVars, rankVars, revVars, candsCat, candsNDC, call,
                pureVars, diskVars, embVars, loadVars, ruleVars>>
nonPureVars == <<idxVars, cfgVars, rankVars, revVars, appVars, batVars, diskVars, embVars, loadVars, ruleVars>>
nonDiskVars == <<idxVars, cfgVars, rankVars, revVars, appVars, batVars, pureVars, embVars, loadVars, ruleVars>>
nonEmbVars == <<idxVars, cfgVars, rankVars, revVars, appVars, batVars, pureVars, diskVars, loadVars, ruleVars>>
nonLoadVars == <<idxVars, cfgVars, rankVars, revVars, appVars, batVars, pureVars, diskVars, embVars, ruleVars>>
nonRuleVars == <<idxVars, cfgVars, rankVars, revVars, appVars, batVars, pureVars, diskVars, embVars, loadVars>>

ZeroItem == [Label |-> "", Source |-> "", Vector |-> <<>>]

\* All lists of at most n items with different labels.
RECURSIVE ItemListsOf(_, _, _, _)
ItemListsOf(n, labels, vecs, source) ==
    IF n = 0 THEN {<<>>}
    ELSE LET shorter == ItemListsOf(n - 1, labels, vecs, source)
         IN  shorter \cup
             {Append(s, [Label |-> l, Source |-> source, Vector |-> v]) :
                 s \in {t \in shorter : Len(t) = n - 1},
                 l \in labels, v \in vecs}

ItemLists(n, labels, vecs) == ItemListsOf(n, labels, vecs, "seed")

DistinctLabels(s) == \A i, j \in DOMAIN s : i # j => s[i].Label # s[j].Label

SearchInputs == {s \in ItemLists(MaxItems, Labels, ItemVecs) : DistinctLabels(s)}

\* The lists a reload installs in the concurrent specification.
ReloadInputs ==
    {s \in ItemLists(2, {"a", "b"}, {<<1, 0>>, <<1, 1>>}) : DistinctLabels(s)}

RdIdle == [pc |-> "idle", snap |-> 0, vec |-> <<>>, k |-> 0, kk |-> 0, i |-> 0,
           heap |-> <<>>, hits |-> <<>>, seen |-> <<>>]
WrIdle == [pc |-> "idle", input |-> <<>>, i |-> 0, n |-> 0]

\* RLock succeeds only while no writer holds the mutex.
RLockNoMutex == TRUE
RLock == idxMu = "free"

\* Search, lines 81-89: snapshot the slice header under the read lock.
SearchBegin ==
    /\ rd.pc = "idle"
    /\ RLock
    /\ \E vec \in QueryVecs \cup {<<>>}, k \in 0..MaxK :
         LET items == arrays[idxItems]
             kk == SearchK(items, vec, k)
         IN  rd' = [RdIdle EXCEPT !.pc = IF kk = 0 THEN "done" ELSE "scan",
                                  !.snap = idxItems, !.vec = vec, !.k = k,
                                  !.kk = kk, !.i = 1]
    /\ UNCHANGED <<arrays, idxItems, idxMu, wr, hist, nonIdxVars>>

\* Search, lines 92-109: one item of the snapshot.
SearchScan ==
    /\ rd.pc = "scan"
    /\ LET items == arrays[rd.snap]
           it == items[rd.i]
       IN  rd' = [rd EXCEPT !.heap = SearchOffer(rd.heap, it, rd.vec, rd.kk),
                            !.seen = Append(rd.seen, it),
                            !.i = rd.i + 1,
                            !.pc = IF rd.i = Len(items) THEN "drain" ELSE "scan"]
    /\ UNCHANGED <<arrays, idxItems, idxMu, wr, hist, nonIdxVars>>

\* Search, lines 113-123: pop the heap into hits, sort, return.
SearchFinish ==
    /\ rd.pc = "drain"
    /\ rd' = [rd EXCEPT !.hits = SortHits(HeapDrain(rd.heap)), !.heap = <<>>,
                        !.pc = "done"]
    /\ UNCHANGED <<arrays, idxItems, idxMu, wr, hist, nonIdxVars>>

SearchReturn ==
    /\ rd.pc = "done"
    /\ rd' = RdIdle
    /\ UNCHANGED <<arrays, idxItems, idxMu, wr, hist, nonIdxVars>>

\* Replace, lines 45-47: take the write lock, allocate the new array.
ReplaceBegin ==
    /\ wr.pc = "idle"
    /\ idxMu = "free"
    /\ Len(hist) <= MaxReplace
    /\ \E input \in ReloadInputs :
         /\ wr' = [pc |-> "fill", input |-> input, i |-> 1, n |-> Len(input)]
         /\ arrays' = Append(arrays, [j \in 1..Len(input) |-> ZeroItem])
         /\ hist' = Append(hist, input)
    /\ idxItems' = Len(arrays) + 1
    /\ idxMu' = "w"
    /\ UNCHANGED <<rd, nonIdxVars>>

\* Replace, lines 48-54: copy one item into the new array.
ReplaceFill ==
    /\ wr.pc = "fill"
    /\ wr.i <= wr.n
    /\ arrays' = [arrays EXCEPT ![idxItems][wr.i] = wr.input[wr.i]]
    /\ wr' = [wr EXCEPT !.i = wr.i + 1]
    /\ UNCHANGED <<idxItems, idxMu, rd, hist, nonIdxVars>>

\* Replace, line 46 (deferred): release the write lock.
ReplaceEnd ==
    /\ wr.pc = "fill"
    /\ wr.i > wr.n
    /\ wr' = WrIdle
    /\ idxMu' = "free"
    /\ UNCHANGED <<arrays, idxItems, rd, hist, nonIdxVars>>

(***************************************************************************)
(* Configuration.  app.Config with sanitizeConfig (config.go) and          *)
(* categorizer.Config with ApplyDefaults (types.go of package categorizer).*)
(***************************************************************************)
ModeSeeded == "seeded"
ModeMixed == "mixed"
ModeSplit == "split"

defaultConfig ==
    [TopK |-> 3, Mode |-> ModeMixed, UseNDC |-> TRUE, WeightNDC |-> 85,
     SeedBias |-> 3,
     Thresh |-> [Top1 |-> 45, Margin12 |-> 3, Mean |-> 50],
     ClusterCfg |-> [Enabled |-> FALSE, Threshold |-> 80]]

sanitizeConfig(cfg) ==
    LET c1 == [cfg EXCEPT !.TopK = IF @ < 3 THEN 3 ELSE @]
        c2 == [c1 EXCEPT !.TopK = IF @ > 5 THEN 5 ELSE @]
        c3 == [c2 EXCEPT !.Mode =
                  IF @ \in {ModeSeeded, ModeMixed, ModeSplit} THEN @ ELSE ModeMixed]
        c4 == [c3 EXCEPT !.WeightNDC = IF @ < 50 THEN 50 ELSE @]
        c5 == [c4 EXCEPT !.WeightNDC = IF @ > 120 THEN 120 ELSE @]
        c6 == [c5 EXCEPT !.SeedBias = IF @ < 0 THEN 0 ELSE @]
        c7 == [c6 EXCEPT !.SeedBias = IF @ > 20 THEN 20 ELSE @]
        c8 == [c7 EXCEPT !.ClusterCfg.Threshold = IF @ <= 0 THEN 80 ELSE @]
        c9 == [c8 EXCEPT !.Thresh.Top1 = IF @ <= 0 THEN 45 ELSE @]
        c10 == [c9 EXCEPT !.Thresh.Margin12 = IF @ < 0 THEN 3 ELSE @]
    IN  [c10 EXCEPT !.Thresh.Mean = IF @ <= 0 THEN 50 ELSE @]

\* The zero value of categorizer.Config.
CatZeroConfig ==
    [Mode |-> "", TopK |-> 0, SeedBias |-> 0, MinScore |-> 0,
     Cluster |-> [Enabled |-> FALSE, Threshold |-> 0], UseNDC |-> FALSE]

ApplyDefaults(c) ==
    LET c1 == [c EXCEPT !.Mode = IF @ = "" THEN ModeMixed ELSE @]
        c2 == [c1 EXCEPT !.TopK = IF @ <= 0 THEN 3 ELSE @]
        c3 == [c2 EXCEPT !.SeedBias = IF @ = 0 THEN 3 ELSE @]
        c4 == [c3 EXCEPT !.MinScore = IF @ = 0 THEN 35 ELSE @]
    IN  [c4 EXCEPT !.Cluster.Threshold = IF @ = 0 THEN 80 ELSE @]

\* Configs a caller can pass: the settings dialog takes any number typed into
\* its fields and config.json any value.
ConfigInputs ==
    {[TopK |-> k, Mode |-> m, UseNDC |-> TRUE, WeightNDC |-> w, SeedBias |-> b,
      Thresh |-> [Top1 |-> t1, Margin12 |-> m12, Mean |-> 0],
      ClusterCfg |-> [Enabled |-> FALSE, Threshold |-> tau]] :
        k \in {0, 4, 10}, m \in {"", "seeded", "bogus", "split"},
        w \in {0, 200}, b \in {-5, 50}, t1 \in {0, 45},
        m12 \in {-3, 0, 3}, tau \in {0, 80, 150}}

CatConfigInputs ==
    {[CatZeroConfig EXCEPT !.Mode = m, !.TopK = k, !.Cluster.Threshold = tau] :
        m \in {"", "seeded", "bogus"}, k \in {0, 10}, tau \in {0, 150}}

\* app.Service.UpdateConfig: s.cfg = sanitizeConfig(cfg) under the lock.
UpdateConfigFrom(inputs) ==
    /\ \E cfg \in inputs : svcCfg' = sanitizeConfig(cfg)
    /\ UNCHANGED <<catCfg, catIn, nonCfgVars>>

UpdateConfig == UpdateConfigFrom(ConfigInputs)

\* categorizer.Service.UpdateConfig: cfg.ApplyDefaults(); s.cfg = cfg.
CatUpdateConfig ==
    /\ \E cfg \in CatConfigInputs :
         /\ catIn' = cfg
         /\ catCfg' = ApplyDefaults(cfg)
    /\ UNCHANGED <<svcCfg, nonCfgVars>>

IdleIdx ==
    /\ arrays = << <<>> >>
    /\ hist = << <<>> >>
    /\ idxItems = 1
    /\ idxMu = "free"
    /\ wr = WrIdle
    /\ rd = RdIdle

IdleCfg ==
    /\ svcCfg = sanitizeConfig(defaultConfig)
    /\ catIn = CatZeroConfig
    /\ catCfg = ApplyDefaults(CatZeroConfig)

NoRow == [called |-> FALSE]

IdleRank ==
    /\ seedsIdx = <<>>
    /\ ndcIdx = <<>>
    /\ catRow = NoRow

NoReview ==
    [variant |-> "none", sugs |-> <<>>,
     thresh |-> [Top1 |-> 45, Margin12 |-> 3, Mean |-> 50], result |-> FALSE]

IdleReview == review = NoReview

EmptyAppRow ==
    [Text |-> "", Suggestions |-> <<>>, SeedSuggestions |-> <<>>,
     NDCSuggestions |-> <<>>, NeedReview |-> FALSE]

CallIdle ==
    [pc |-> "idle", text |-> "", normalized |-> "", vec |-> <<>>,
     cfg |-> sanitizeConfig(defaultConfig), catCands |-> <<>>, ndcCands |-> <<>>,
     seeds |-> <<>>, ndc |-> <<>>, combined |-> <<>>, ref |-> <<>>,
     row |-> EmptyAppRow, err |-> FALSE, used |-> {}]

IdleApp ==
    /\ candsCat = <<>>
    /\ candsNDC = <<>>
    /\ cacheMem = {}
    /\ cacheFiles = {}
    /\ call = CallIdle

NoBatch ==
    [driver |-> "none", texts |-> <<>>, pc |-> "returned", i |-> 0, vecs |-> <<>>,
     rows |-> <<>>, workers |-> <<>>, firstErr |-> 0, order |-> <<>>,
     cancelled |-> FALSE, afterCancel |-> 0,
     out |-> [rows |-> <<>>, err |-> FALSE, errors |-> 0]]

IdleBatch == batch = NoBatch

NoCall == [op |-> "none", args |-> <<>>, out |-> <<>>]

IdlePure == fnCall = NoCall

Procs == {1, 2}

InstDown ==
    [kind |-> "", model |-> "", pc |-> "down", mem |-> {}, text |-> "",
     key |-> <<>>, seen |-> "", encoded |-> FALSE, ok |-> FALSE, vec |-> <<>>,
     fd |-> <<>>, pos |-> 0, buf |-> <<>>]

IdleDisk ==
    /\ insts = [p \in Procs |-> InstDown]
    /\ disk = {}
    /\ crashes = 0
    /\ calls = 0

Gors == {1, 2}
NoGor == [pc |-> "idle", text |-> "", key |-> <<>>, vec |-> <<>>, slice |-> 0,
          from |-> "", ok |-> FALSE]
NoEmb == [kind |-> "", enc |-> "nil", released |-> FALSE, mem |-> {},
          files |-> {}, allocs |-> 0, started |-> 0]

IdleEmb ==
    /\ emb = NoEmb
    /\ gor = [g \in Gors |-> NoGor]

NoUpd == [labels |-> <<>>, err |-> FALSE, n |-> 0, before |-> <<>>]
NoBuild == [pc |-> "none", userCats |-> <<>>, ndc |-> <<>>, cat |-> "", ndcG |-> "",
            candsCat |-> <<>>, candsNDC |-> <<>>, firstErr |-> FALSE]

NoCfgUpd == [pc |-> "idle", file |-> "", rules |-> ""]
NoRuleSnap == [taken |-> FALSE, file |-> "", rules |-> ""]

IdleRule ==
    /\ ruleSvc = [file |-> "", rules |-> "defaults"]
    /\ cfgUpd = NoCfgUpd
    /\ ruleSnap = NoRuleSnap

IdleLoad ==
    /\ loader = ""
    /\ jobs = <<>>
    /\ upd = NoUpd
    /\ build = NoBuild

(***************************************************************************)
(* SpecConfig: both services are constructed with their default configs   *)
(* (NewService sanitizes it) and then reconfigured with arbitrary configs. *)
(***************************************************************************)
InitConfig ==
    /\ IdleIdx
    /\ IdleRank
    /\ IdleReview
    /\ svcCfg = sanitizeConfig(defaultConfig)
    /\ catIn = CatZeroConfig
    /\ catCfg = ApplyDefaults(CatZeroConfig)
    /\ IdleApp
    /\ IdleBatch
    /\ IdlePure
    /\ IdleDisk
    /\ IdleEmb
    /\ IdleLoad
    /\ IdleRule

NextConfig == UpdateConfig \/ CatUpdateConfig

SpecConfig == InitConfig /\ [][NextConfig]_vars

\* C3: the stored config satisfies every documented range: mode is one of
\* seeded/mixed/split, topK in [3,5], weightTaxonomy in [0.5,1.2], seedBias in
\* [0,0.2], clusterThreshold strictly inside (0,1), top1, margin12 and mean
\* strictly positive.
C3_StoredConfigInRanges ==
    /\ svcCfg.Mode \in {ModeSeeded, ModeMixed, ModeSplit}
    /\ svcCfg.TopK \in 3..5
    /\ svcCfg.WeightNDC >= 50 /\ svcCfg.WeightNDC <= 120
    /\ svcCfg.SeedBias >= 0 /\ svcCfg.SeedBias <= 20
    /\ svcCfg.ClusterCfg.Threshold > 0 /\ svcCfg.ClusterCfg.Threshold < Scale
    /\ svcCfg.Thresh.Top1 > 0
    /\ svcCfg.Thresh.Margin12 > 0
    /\ svcCfg.Thresh.Mean > 0
    /\ catCfg.Mode \in {ModeSeeded, ModeMixed, ModeSplit}
    /\ catCfg.TopK \in 3..5
    /\ catCfg.SeedBias >= 0 /\ catCfg.SeedBias <= 20
    /\ catCfg.Cluster.Threshold > 0 /\ catCfg.Cluster.Threshold < Scale

(***************************************************************************)
(* SpecSearch: one Search after another over every store of at most        *)
(* MaxItems items.                                                         *)
(***************************************************************************)
InitSearch ==
    /\ \E items \in SearchInputs :
         /\ arrays = <<items>>
         /\ hist = <<items>>
    /\ idxItems = 1
    /\ idxMu = "free"
    /\ wr = WrIdle
    /\ rd = RdIdle
    /\ IdleCfg
    /\ IdleRank
    /\ IdleReview
    /\ IdleApp
    /\ IdleBatch
    /\ IdlePure
    /\ IdleDisk
    /\ IdleEmb
    /\ IdleLoad
    /\ IdleRule

NextSearch == SearchBegin \/ SearchScan \/ SearchFinish

SpecSearch == InitSearch /\ [][NextSearch]_vars

(***************************************************************************)
(* Search against a full sort followed by truncation.                      *)
(***************************************************************************)
\* Every candidate of a store scored against the query.
ScoredSet(items, vec) ==
    {[Label |-> items[i].Label, Score |-> cosineSimilarity(vec, items[i].Vector),
      Source |-> items[i].Source, Vector |-> items[i].Vector] : i \in DOMAIN items}

\* x comes before y: higher score first, equal scores by ascending label.
RankedBefore(x, y) ==
    \/ x.Score > y.Score
    \/ x.Score = y.Score /\ StringRank(x.Label) < StringRank(y.Label)

\* The position of x among all candidates in that order.
PositionOf(x, all) == 1 + Cardinality({y \in all : RankedBefore(y, x)})

\* C2: for n items, a non-empty query and k > 0, Search returns exactly
\* min(k, n) hits and hit p is the p-th candidate of all candidates ordered by
\* score descending, equal scores by ascending label.
C2_SearchIsSortedPrefix ==
    (rd.pc = "done" /\ Len(rd.vec) > 0 /\ rd.k > 0) =>
        LET items == arrays[rd.snap]
            all == ScoredSet(items, rd.vec)
        IN  /\ Len(rd.hits) = Min(rd.k, Len(items))
            /\ \A p \in DOMAIN rd.hits :
                 /\ rd.hits[p] \in all
                 /\ PositionOf(rd.hits[p], all) = p

\* A search that cut the store (k < n) at a pair of equal scores.
C2_Witness ==
    /\ rd.pc = "done"
    /\ rd.k >= 2
    /\ Len(arrays[rd.snap]) > rd.k
    /\ Len(rd.hits) = rd.k
    /\ \E y \in ScoredSet(arrays[rd.snap], rd.vec) :
         /\ y.Score = rd.hits[rd.k].Score
         /\ y.Label # rd.hits[rd.k].Label
         /\ \A p \in DOMAIN rd.hits : rd.hits[p].Label # y.Label


(***************************************************************************)
(* SpecIndex: Search running concurrently with Replace.                    *)
(***************************************************************************)
InitIndex ==
    /\ IdleIdx
    /\ IdleCfg
    /\ IdleRank
    /\ IdleReview
    /\ IdleApp
    /\ IdleBatch
    /\ IdlePure
    /\ IdleDisk
    /\ IdleEmb
    /\ IdleLoad
    /\ IdleRule

NextIndex ==
    \/ SearchBegin \/ SearchScan \/ SearchFinish \/ SearchReturn
    \/ ReplaceBegin \/ ReplaceFill \/ ReplaceEnd

SpecIndex == InitIndex /\ [][NextIndex]_vars

IsPrefix(s, t) == Len(s) <= Len(t) /\ \A i \in DOMAIN s : s[i] = t[i]

\* C1: a Search that runs while Replace reloads the store ranks against one
\* complete item list handed to Replace (or the initial one): the array it
\* snapshotted is completely filled, it scans exactly that list, and its
\* result is the result for that list.
C1_ReaderSeesWholeStore ==
    rd.pc \in {"scan", "drain", "done"} =>
        /\ arrays[rd.snap] = hist[rd.snap]
        /\ IsPrefix(rd.seen, hist[rd.snap])
        /\ (rd.pc \in {"drain", "done"} /\ rd.kk > 0) => rd.seen = hist[rd.snap]
        /\ rd.pc = "done" => rd.hits = Search(hist[rd.snap], rd.vec, rd.k)

\* A Search over a non-empty store finished after a Replace that started
\* during it has installed another non-empty list.
C1_Witness ==
    /\ rd.pc = "done"
    /\ Len(rd.hits) > 0
    /\ rd.snap # idxItems
    /\ wr.pc = "fill"
    /\ wr.i > 1
    /\ hist[rd.snap] # hist[idxItems]

(***************************************************************************)
(* categorizer.Service.rankForVector (categorizer/service.go 159-218) with *)
(* clusterHits (categorizer/cluster.go).                                   *)
(*                                                                         *)
(* A clustered hit's label "best（類似: x, y）" is the pair Label = best,  *)
(* Similar = <<x, y>>; labels of different clusters start with different   *)
(* letters, so comparing the Label fields compares the formatted strings.  *)
(***************************************************************************)
filterHits(hits, minScore) ==
    IF minScore <= 0 THEN hits
    ELSE SelectSeq(hits, LAMBDA h : h.Score >= minScore)

limitHits(hits, k) == IF Len(hits) <= k THEN hits ELSE SubSeq(hits, 1, k)

hitsToSuggestions(hits) ==
    [i \in DOMAIN hits |->
        [Label |-> hits[i].Label,
         Similar |-> IF "Similar" \in DOMAIN hits[i] THEN hits[i].Similar ELSE <<>>,
         Score |-> hits[i].Score,
         Source |-> hits[i].Source]]

\* One iteration of clusterHits' loop over the hits (cluster.go 20-47).
ClusterAdd(clusters, h, threshold) ==
    IF Len(h.Vector) = 0
    THEN Append(clusters, [repr |-> <<>>, best |-> h, members |-> <<h>>])
    ELSE LET near == {i \in DOMAIN clusters :
                        /\ Len(clusters[i].repr) > 0
                        /\ cosineSimilarity(h.Vector, clusters[i].repr) >= threshold}
         IN  IF near = {}
             THEN Append(clusters, [repr |-> h.Vector, best |-> h, members |-> <<h>>])
             ELSE LET i == CHOOSE j \in near : \A m \in near : j <= m
                      c == clusters[i]
                      better == h.Score > c.best.Score
                  IN  [clusters EXCEPT ![i] =
                          [repr |-> IF better THEN h.Vector ELSE c.repr,
                           best |-> IF better THEN h ELSE c.best,
                           members |-> Append(c.members, h)]]

RECURSIVE ClusterAll(_, _, _, _)
ClusterAll(clusters, hits, i, threshold) ==
    IF i > Len(hits) THEN clusters
    ELSE ClusterAll(ClusterAdd(clusters, hits[i], threshold), hits, i + 1, threshold)

\* The labels of the other members, each once, in member order (cluster.go 55-66).
RECURSIVE ClusterExtras(_, _, _)
ClusterExtras(members, i, seen) ==
    IF i > Len(members) THEN <<>>
    ELSE IF members[i].Label \in seen THEN ClusterExtras(members, i + 1, seen)
         ELSE <<members[i].Label>>
                \o ClusterExtras(members, i + 1, seen \cup {members[i].Label})

clusterHits(hits, threshold) ==
    IF Len(hits) <= 1 \/ threshold <= 0 THEN hits
    ELSE LET clusters == ClusterAll(<<>>, hits, 1, threshold)
             out == [i \in DOMAIN clusters |->
                        [Label |-> clusters[i].best.Label,
                         Similar |-> ClusterExtras(clusters[i].members, 1,
                                                   {clusters[i].best.Label}),
                         Score |-> clusters[i].best.Score,
                         Source |-> clusters[i].best.Source,
                         Vector |-> clusters[i].best.Vector]]
         IN  SortHits(out)

EmptyRow == [Suggestions |-> <<>>, NDCSuggestions |-> <<>>]

\* case ModeSeeded (service.go 171-176).
rankSeeded(seedHits, ndcHits, cfg, topK) ==
    LET clustered == IF cfg.Cluster.Enabled
                     THEN clusterHits(seedHits, cfg.Cluster.Threshold) ELSE seedHits
    IN  [Suggestions |-> hitsToSuggestions(limitHits(clustered, topK)),
         NDCSuggestions |-> <<>>]

\* case ModeSplit (service.go 177-185).
rankSplit(seedHits, ndcHits, cfg, topK) ==
    LET sh == IF cfg.Cluster.Enabled
              THEN clusterHits(seedHits, cfg.Cluster.Threshold) ELSE seedHits
        nh == IF cfg.Cluster.Enabled
              THEN clusterHits(ndcHits, cfg.Cluster.Threshold) ELSE ndcHits
    IN  [Suggestions |-> hitsToSuggestions(limitHits(sh, topK)),
         NDCSuggestions |-> IF cfg.UseNDC THEN hitsToSuggestions(limitHits(nh, topK))
                            ELSE <<>>]

\* case ModeMixed (service.go 186-204).
rankMixed(seedHits, ndcHits, cfg, topK) ==
    LET biased == [i \in DOMAIN seedHits |->
                      [seedHits[i] EXCEPT !.Score = @ + cfg.SeedBias]]
        weighted == IF cfg.UseNDC THEN biased \o ndcHits ELSE biased
        clustered == IF cfg.Cluster.Enabled
                     THEN clusterHits(weighted, cfg.Cluster.Threshold) ELSE weighted
    IN  [Suggestions |-> hitsToSuggestions(limitHits(SortHits(clustered), topK)),
         NDCSuggestions |-> <<>>]

rankDefaultNoSuggestions(seedHits, ndcHits, cfg, topK) == EmptyRow

\* default: "Fallback to seeded behaviour if mode unknown" (service.go 205-211).
rankDefault(seedHits, ndcHits, cfg, topK) ==
    LET clustered == IF cfg.Cluster.Enabled
                     THEN clusterHits(seedHits, cfg.Cluster.Threshold) ELSE seedHits
    IN  [Suggestions |-> hitsToSuggestions(limitHits(clustered, topK)),
         NDCSuggestions |-> <<>>]

rankForVector(seeds, ndc, vec, cfg) ==
    LET topK == IF cfg.TopK <= 0 THEN 3 ELSE cfg.TopK
        seedHits == filterHits(Search(seeds, vec, topK * 3), cfg.MinScore)
        ndcHits == filterHits(Search(ndc, vec, topK * 3), cfg.MinScore)
    IN  CASE cfg.Mode = ModeSeeded -> rankSeeded(seedHits, ndcHits, cfg, topK)
          [] cfg.Mode = ModeSplit -> rankSplit(seedHits, ndcHits, cfg, topK)
          [] cfg.Mode = ModeMixed -> rankMixed(seedHits, ndcHits, cfg, topK)
          [] OTHER -> rankDefault(seedHits, ndcHits, cfg, topK)

\* Configs handed to the categorizer service; "" is the unset mode and
\* "bogus" a value that is not a mode.
CatRankInputs ==
    {[Mode |-> m, TopK |-> k, SeedBias |-> 0, MinScore |-> 0,
      Cluster |-> [Enabled |-> en, Threshold |-> tau], UseNDC |-> u] :
        m \in {"", ModeSeeded, ModeMixed, ModeSplit, "bogus"}, k \in {0, 1},
        en \in BOOLEAN, tau \in {0, 60}, u \in BOOLEAN}

SeedStores == {s \in ItemListsOf(2, {"a", "b"}, ItemVecs, "seed") : DistinctLabels(s)}
NDCStores == {s \in ItemListsOf(2, {"c", "d"}, ItemVecs, "ndc") : DistinctLabels(s)}

\* One text of ClassifyAll: cfg := s.Config(), then rankForVector(vec, text, cfg).
CatClassify ==
    /\ \E vec \in QueryVecs :
         catRow' = [called |-> TRUE, vec |-> vec, cfg |-> catCfg,
                    row |-> rankForVector(seedsIdx, ndcIdx, vec, catCfg)]
    /\ UNCHANGED <<seedsIdx, ndcIdx, cfgVars, nonRankVars>>

(***************************************************************************)
(* SpecRank: a categorizer service constructed with any config and any     *)
(* seed and NDC stores classifies texts; the app service is constructed    *)
(* with the same mode value.                                               *)
(***************************************************************************)
InitRank ==
    /\ IdleIdx
    /\ IdleReview
    /\ catIn \in CatRankInputs
    /\ svcCfg = sanitizeConfig([defaultConfig EXCEPT !.Mode = catIn.Mode])
    /\ catCfg = ApplyDefaults(catIn)
    /\ seedsIdx \in SeedStores
    /\ ndcIdx \in NDCStores
    /\ catRow = NoRow
    /\ IdleApp
    /\ IdleBatch
    /\ IdlePure
    /\ IdleDisk
    /\ IdleEmb
    /\ IdleLoad
    /\ IdleRule

NextRank == CatClassify

SpecRank == InitRank /\ [][NextRank]_vars

KnownModes == {ModeSeeded, ModeMixed, ModeSplit}

SeededRow(row) ==
    rankForVector(seedsIdx, ndcIdx, row.vec, [row.cfg EXCEPT !.Mode = ModeSeeded])

\* C4 as stated: whenever the configured mode is unknown or unset, the call
\* ranks as Seeded mode does (seed candidates only, one list), and the mode is
\* not turned into another mode.
C4_UnknownOrUnsetRanksAsSeeded ==
    (catRow.called /\ catIn.Mode \notin KnownModes) =>
        /\ catRow.cfg.Mode \notin {ModeMixed, ModeSplit}
        /\ catRow.row = SeededRow(catRow)
        /\ \A i \in DOMAIN catRow.row.Suggestions :
             catRow.row.Suggestions[i].Source = "seed"

\* C4 amended: an unset mode is stored as Mixed by ApplyDefaults (and app's
\* sanitizeConfig stores no mode outside seeded/mixed/split); a mode that is
\* still unknown when rankForVector runs ranks exactly as Seeded mode does:
\* one list, seed candidates only, empty only where Seeded's list is empty.
C4_UnknownModeRanksAsSeeded ==
    /\ catCfg.Mode # ""
    /\ catIn.Mode = "" => catCfg.Mode = ModeMixed
    /\ catIn.Mode \notin KnownModes => svcCfg.Mode = ModeMixed
    /\ (catRow.called /\ catRow.cfg.Mode \notin KnownModes) =>
          /\ catRow.row = SeededRow(catRow)
          /\ catRow.row.NDCSuggestions = <<>>
          /\ \A i \in DOMAIN catRow.row.Suggestions :
               catRow.row.Suggestions[i].Source = "seed"

\* A call under an unknown mode that returned seed suggestions although NDC
\* candidates were there to be mixed in.
C4_Witness ==
    /\ catRow.called
    /\ catRow.cfg.Mode = "bogus"
    /\ Len(catRow.row.Suggestions) > 0
    /\ Len(ndcIdx) > 0
    /\ catRow.cfg.UseNDC
    /\ catRow.row # rankForVector(seedsIdx, ndcIdx, catRow.vec,
                                  [catRow.cfg EXCEPT !.Mode = ModeMixed])

(***************************************************************************)
(* package app: text utilities, embedding and scoring                      *)
(* (internal/app/textutil.go, mathutil.go, config.go, service.go).         *)
(*                                                                         *)
(* Strings.  Labels are the letters a (a plain category), b (a category of *)
(* vrCategoryKeySet), e and f (the two dampCategoryKeys), c and d (NDC     *)
(* entries).  Texts are "x", "y", "z", "w", the variants "X" (upper case)  *)
(* and " " (blank), "" and "bad" (a text the encoder rejects); "x.fw"      *)
(* stands for the full-width letter x, which NFKC maps to "x".             *)
(***************************************************************************)
\* normalizeText: trim, collapse spaces, lower-case.
normalizeText(t) ==
    CASE t = "X" -> "x"
      [] t = "x.fw" -> "x"
      [] t = " " -> ""
      [] OTHER -> t

\* normalizeKey: lower-case key of a display label.
normalizeKey(l) == normalizeText(l)

\* emb.Encoder.Encode: the embedding of a normalized text.
EncodeFails(t) == t = "bad"
Encode(t) ==
    CASE t \in {"x", "z", "w", "a", "c"} -> <<1, 0>>
      [] t \in {"y", "b", "d"} -> <<1, 1>>
      [] OTHER -> <<0, 1>>

\* The keywords of the rule tables that occur in a text (containsKeyword).
TextKeywords(t) ==
    CASE t = "x" -> {"vr"}
      [] t = "y" -> {"weak", "anti"}
      [] t = "z" -> {"vr", "edu"}
      [] t = "w" -> {"edu", "anti"}
      [] OTHER -> {}

NoRules == [strong |-> {}, weak |-> {}, anti |-> {}]

\* compiledCategoryRules: category key -> keyword sets.
categoryRulesOf(key) ==
    CASE key = "a" -> [strong |-> {}, weak |-> {"weak"}, anti |-> {}]
      [] key = "b" -> [strong |-> {"vr"}, weak |-> {}, anti |-> {}]
      [] key = "e" -> [strong |-> {"edu"}, weak |-> {"weak"}, anti |-> {"anti"}]
      [] OTHER -> NoRules

vrCategoryKeySet == {"b"}
dampCategoryKeys == <<"e", "f">>

clamp01(x) == IF x < 0 THEN 0 ELSE IF x > Scale THEN Scale ELSE x

\* tinyBias is below 0.000001, less than the resolution of the model.
tinyBias(key) == 0

\* cosine32 (mathutil.go): over the components of a.
cosine32(a, b) ==
    LET n == Len(a)
        dot == DotN(a, b, n)
        na == DotN(a, a, n)
        nb == DotN(b, b, n)
    IN  IF na = 0 \/ nb = 0 THEN 0
        ELSE (dot * Scale * Scale * Scale) \div (sqrtFloat64(na) * sqrtFloat64(nb))

mulScaled(a, b) == (a * b) \div Scale

\* sort.SliceStable by score descending.
RECURSIVE InsertByScore(_, _)
InsertByScore(s, x) ==
    IF Len(s) = 0 THEN <<x>>
    ELSE IF s[1].Score > x.Score THEN <<s[1]>> \o InsertByScore(Tail(s), x)
         ELSE <<x>> \o s

RECURSIVE SortStableByScore(_)
SortStableByScore(s) ==
    IF Len(s) = 0 THEN <<>>
    ELSE InsertByScore(SortStableByScore(Tail(s)), s[1])

\* The scoring constants of config.go 480-491.
strongWeight == 100
weakWeight == 25
antiWeight == 100
strongCap == 3
weakCap == 5
bonusCapValue == 400
alphaWeight == 80
betaWeight == 20
floorForced == 60
dampValue == 3

\* countRuleHits and computeRuleBonus (config.go 627-632, 708-728).
countRuleHits(text, rules) ==
    [strong |-> Cardinality(rules.strong \cap TextKeywords(text)),
     weak |-> Cardinality(rules.weak \cap TextKeywords(text)),
     anti |-> Cardinality(rules.anti \cap TextKeywords(text))]

computeRuleBonus(strongHits, weakHits, antiHits) ==
    LET sh == Min(strongHits, strongCap)
        wh == Min(weakHits, weakCap)
        b1 == strongWeight * sh + weakWeight * wh
        b2 == IF antiHits > 0 THEN b1 - antiWeight * antiHits ELSE b1
        b3 == IF b2 < 0 THEN 0 ELSE b2
    IN  IF b3 > bonusCapValue THEN bonusCapValue ELSE b3

\* computeBaseScores: label -> clamped cosine.
computeBaseScore(vec, c) == clamp01(Max(cosine32(vec, c.Vec), 0))

hybridFinalNoFloor(text, vec, c, seedBias) ==
    LET base == computeBaseScore(vec, c)
        hits == countRuleHits(text, categoryRulesOf(c.Key))
        bonus == computeRuleBonus(hits.strong, hits.weak, hits.anti)
        f1 == mulScaled(alphaWeight, base)
        f2 == IF bonus > 0
              THEN f1 + mulScaled(betaWeight, (bonus * Scale) \div bonusCapValue)
              ELSE f1
    IN  clamp01(f2 + seedBias + tinyBias(c.Key))

\* The final score of one candidate before damping (config.go 511-530).
hybridFinal(text, vec, c, seedBias) ==
    LET base == computeBaseScore(vec, c)
        hits == countRuleHits(text, categoryRulesOf(c.Key))
        bonus == computeRuleBonus(hits.strong, hits.weak, hits.anti)
        f1 == mulScaled(alphaWeight, base)
        f2 == IF bonus > 0
              THEN f1 + mulScaled(betaWeight, (bonus * Scale) \div bonusCapValue)
              ELSE f1
        f3 == IF hits.strong > 0 /\ f2 < floorForced THEN floorForced ELSE f2
    IN  clamp01(f3 + seedBias + tinyBias(c.Key))

\* Position of the first candidate with the key, 0 if there is none.
FirstWithKey(cands, key) ==
    IF \E i \in DOMAIN cands : cands[i].Key = key
    THEN CHOOSE i \in DOMAIN cands :
            /\ cands[i].Key = key
            /\ \A j \in DOMAIN cands : cands[j].Key = key => i <= j
    ELSE 0

\* applyHybridScoring: the suggestions, sorted by score then label.
applyHybridScoring(text, vec, cands, seedBias) ==
    LET hasVRSignal ==
            \E i \in DOMAIN cands :
                /\ cands[i].Key \in vrCategoryKeySet
                /\ countRuleHits(text, categoryRulesOf(cands[i].Key)).strong > 0
        damped == {FirstWithKey(cands, dampCategoryKeys[t]) : t \in DOMAIN dampCategoryKeys}
        final(i) ==
            LET f == hybridFinal(text, vec, cands[i], seedBias)
            IN  IF hasVRSignal /\ i \in damped THEN Max(f - dampValue, 0) ELSE f
    IN  SortHits([i \in DOMAIN cands |->
                    [Label |-> cands[i].Label, Score |-> final(i),
                     Source |-> <<"hybrid">>, Aliases |-> <<>>]])

scoreCandidates(q, cands, weight, bias) ==
    SortStableByScore(
        [i \in DOMAIN cands |->
            [Label |-> cands[i].Label,
             Score |-> clamp01(mulScaled(Max(cosine32(q, cands[i].Vec), 0), weight)
                               + bias + tinyBias(cands[i].Key)),
             Source |-> <<cands[i].Source>>, Aliases |-> <<>>]])

truncateSuggestions(in, k) == IF Len(in) = 0 THEN <<>> ELSE SubSeq(in, 1, Min(k, Len(in)))

mergeSuggestions(a, b, topK) ==
    LET merged == a \o b
    IN  IF Len(merged) = 0 THEN <<>>
        ELSE SubSeq(SortStableByScore(merged), 1, Min(topK, Len(merged)))

\* mergeSources: the distinct source names in order of appearance.
RECURSIVE Dedupe(_, _)
Dedupe(s, seen) ==
    IF Len(s) = 0 THEN <<>>
    ELSE IF s[1] \in seen THEN Dedupe(Tail(s), seen)
         ELSE <<s[1]>> \o Dedupe(Tail(s), seen \cup {s[1]})

mergeSources(a, b) == Dedupe(a \o b, {})

mergeSuggestionKeepFirst(a, b) ==
    [Label |-> a.Label, Score |-> a.Score,
     Source |-> mergeSources(a.Source, b.Source), Aliases |-> a.Aliases]

\* mergeSuggestion: the better label wins, every other name becomes an alias.
mergeSuggestion(a, b) ==
    LET second == b.Score > a.Score
        label == IF second THEN b.Label ELSE a.Label
    IN  [Label |-> label,
         Score |-> IF second THEN b.Score ELSE a.Score,
         Source |-> mergeSources(a.Source, b.Source),
         Aliases |-> Dedupe(<<a.Label, b.Label>> \o a.Aliases \o b.Aliases,
                            {label, ""})]

\* The lookup closure of RankOne: seedVec first, then ndcVec, else nil (<<>>).
VecOf(cands, label) ==
    IF \E i \in DOMAIN cands : cands[i].Label = label
    THEN cands[CHOOSE i \in DOMAIN cands : cands[i].Label = label].Vec
    ELSE <<>>

lookup(catCands, ndcCands, label) ==
    IF VecOf(catCands, label) # <<>> THEN VecOf(catCands, label)
    ELSE VecOf(ndcCands, label)

\* One iteration of clusterSuggestions' loop.
ClusterSuggestionAdd(clusters, sug, tau, catCands, ndcCands) ==
    LET vec == lookup(catCands, ndcCands, sug.Label)
        near == {i \in DOMAIN clusters :
                    LET other == lookup(catCands, ndcCands, clusters[i].Label)
                    IN  other # <<>> /\ cosine32(vec, other) >= tau}
    IN  IF vec = <<>> \/ near = {} THEN Append(clusters, sug)
        ELSE LET i == CHOOSE j \in near : \A m \in near : j <= m
             IN  [clusters EXCEPT ![i] = mergeSuggestion(@, sug)]

RECURSIVE ClusterSuggestionsFrom(_, _, _, _, _, _)
ClusterSuggestionsFrom(clusters, in, i, tau, catCands, ndcCands) ==
    IF i > Len(in) THEN clusters
    ELSE ClusterSuggestionsFrom(
            ClusterSuggestionAdd(clusters, in[i], tau, catCands, ndcCands),
            in, i + 1, tau, catCands, ndcCands)

clusterSuggestions(in, tau, catCands, ndcCands) ==
    IF Len(in) <= 1 THEN in
    ELSE SortStableByScore(ClusterSuggestionsFrom(<<>>, in, 1, tau, catCands, ndcCands))

needReviewOnlyWhenEmpty(sugs, tieDelta) == Len(sugs) = 0

\* needReview of app/service.go (358-369): the margin between rank 1 and 2.
needReview(sugs, tieDelta) ==
    IF Len(sugs) = 0 THEN TRUE
    ELSE IF Len(sugs) < 2 THEN FALSE
    ELSE IF tieDelta <= 0 THEN FALSE
    ELSE (sugs[1].Score - sugs[2].Score) < tieDelta

RECURSIVE SumScores(_)
SumScores(sugs) == IF Len(sugs) = 0 THEN 0 ELSE sugs[1].Score + SumScores(Tail(sugs))

\* The three-threshold test with the margin read the other way round: a
\* gap above margin12 flags the row.
needReviewGapAbove(sugs, thresh) ==
    IF Len(sugs) = 0 THEN TRUE
    ELSE LET top1 == sugs[1].Score
             top2 == IF Len(sugs) > 1 THEN sugs[2].Score ELSE 0
         IN  \/ top1 < thresh.Top1
             \/ (top1 - top2) > thresh.Margin12
             \/ SumScores(sugs) < thresh.Mean * Len(sugs)

\* needReview of the earlier service (three thresholds).  mean < Mean is
\* compared as sum < Mean * n, which is the same for n > 0.
needReviewThresh(sugs, thresh) ==
    IF Len(sugs) = 0 THEN TRUE
    ELSE LET top1 == sugs[1].Score
             top2 == IF Len(sugs) > 1 THEN sugs[2].Score ELSE 0
         IN  \/ top1 < thresh.Top1
             \/ (top1 - top2) < thresh.Margin12
             \/ SumScores(sugs) < thresh.Mean * Len(sugs)

(***************************************************************************)
(* SpecReview: the two needReview functions applied to every ranked list   *)
(* of at most MaxSugs scores under every threshold setting.                *)
(***************************************************************************)
MaxSugs == 3

ReviewScores == {0, 10, 20, 30, 44, 45, 50, 90}

RECURSIVE RankedLists(_)
RankedLists(n) ==
    IF n = 0 THEN {<<>>}
    ELSE LET shorter == RankedLists(n - 1)
         IN  shorter \cup
             {Append(l, [Label |-> Alphabet[n], Score |-> sc,
                         Source |-> <<"hybrid">>, Aliases |-> <<>>]) :
                 l \in {t \in shorter : Len(t) = n - 1},
                 sc \in ReviewScores}

\* Lists as the ranking produces them: scores never increase along the list.
IsRanked(l) == \A i \in DOMAIN l : i > 1 => l[i - 1].Score >= l[i].Score

ReviewThresholds ==
    {[Top1 |-> 45, Margin12 |-> m, Mean |-> mean] : m \in {0, 3, 50}, mean \in {20, 50}}

ReviewInputs ==
    {[sugs |-> l, thresh |-> t] :
        l \in {x \in RankedLists(MaxSugs) : IsRanked(x)}, t \in ReviewThresholds}

\* needReview(ref, cfg.Thresh.Margin12) of app/service.go.
Review ==
    /\ review' = [review EXCEPT !.variant = "margin",
                                !.result = needReview(review.sugs,
                                                      review.thresh.Margin12)]
    /\ UNCHANGED nonRevVars

\* needReview(ref, cfg.Thresh) of the earlier service.
ReviewThresh ==
    /\ review' = [review EXCEPT !.variant = "thresh",
                                !.result = needReviewThresh(review.sugs,
                                                            review.thresh)]
    /\ UNCHANGED nonRevVars

InitReview ==
    /\ IdleIdx
    /\ IdleCfg
    /\ IdleRank
    /\ \E in \in ReviewInputs :
         review = [NoReview EXCEPT !.sugs = in.sugs, !.thresh = in.thresh]
    /\ IdleApp
    /\ IdleBatch
    /\ IdlePure
    /\ IdleDisk
    /\ IdleEmb
    /\ IdleLoad
    /\ IdleRule

NextReview == Review \/ ReviewThresh

SpecReview == InitReview /\ [][NextReview]_vars

ScoreAt(l, i) == IF i <= Len(l) THEN l[i].Score ELSE 0

\* The four documented triggers on a list and a threshold setting.
Top1Trigger(l, t) == Len(l) > 0 /\ l[1].Score < t.Top1
GapTrigger(l, t) == Len(l) > 0 /\ ScoreAt(l, 1) - ScoreAt(l, 2) < t.Margin12
MeanTrigger(l, t) == Len(l) > 0 /\ SumScores(l) < t.Mean * Len(l)
FourTriggers(l, t) ==
    Len(l) = 0 \/ Top1Trigger(l, t) \/ GapTrigger(l, t) \/ MeanTrigger(l, t)

modelID == "m"

\* The characters of a string: the strings that hold the separator "|" are
\* spelled out, every other string of the model is one chunk without it.
Bytes(str) ==
    CASE str = "a|b" -> <<"a", "|", "b">>
      [] str = "b|m" -> <<"b", "|", "m">>
      [] OTHER -> <<str>>

\* cacheKey: the SHA-1 of text + "|" + model in hex; SHA-1 is taken to be
\* free of collisions, so the key is the hashed string itself.
cacheKey(text, model) == Bytes(text) \o <<"|">> \o Bytes(model)

\* OrtEmbedder.cacheKey: the SHA-1 of ModelID, "|", text.
ortCacheKey(model, text) == Bytes(model) \o <<"|">> \o Bytes(text)

CacheHas(c, key) == \E e \in c : e.key = key
CacheGet(c, key) == (CHOOSE e \in c : e.key = key).vec
CachePut(c, key, v) == {e \in c : e.key # key} \cup {[key |-> key, vec |-> v]}

\* EmbedCached: memory, then the cache file, then the encoder.
EmbedCached(text, mem, files) ==
    LET key == cacheKey(text, modelID)
    IN  IF CacheHas(mem, key)
        THEN [ok |-> TRUE, vec |-> CacheGet(mem, key), mem |-> mem, files |-> files,
              encoded |-> FALSE]
        ELSE IF CacheHas(files, key)
        THEN [ok |-> TRUE, vec |-> CacheGet(files, key),
              mem |-> CachePut(mem, key, CacheGet(files, key)), files |-> files,
              encoded |-> FALSE]
        ELSE IF EncodeFails(text)
        THEN [ok |-> FALSE, vec |-> <<>>, mem |-> mem, files |-> files,
              encoded |-> TRUE]
        ELSE [ok |-> TRUE, vec |-> Encode(text),
              mem |-> CachePut(mem, key, Encode(text)),
              files |-> CachePut(files, key, Encode(text)), encoded |-> TRUE]

\* embedLabelSet for labels that normalize to themselves: one candidate per
\* key, in label order.
RECURSIVE embedLabelSet(_, _, _)
embedLabelSet(labels, source, seen) ==
    IF Len(labels) = 0 THEN <<>>
    ELSE LET display == labels[1]
             key == normalizeKey(display)
         IN  IF display = "" \/ key = "" \/ key \in seen
                \/ normalizeText(display) = ""
             THEN embedLabelSet(Tail(labels), source, seen)
             ELSE <<[Label |-> display, Key |-> key,
                     Vec |-> Encode(normalizeText(display)), Source |-> source]>>
                    \o embedLabelSet(Tail(labels), source, seen \cup {key})

\* The steps of RankOne after the snapshot, as functions of its locals.
rankSeeds(normalized, vec, cfg, catCands) ==
    truncateSuggestions(applyHybridScoring(normalized, vec, catCands, cfg.SeedBias),
                        cfg.TopK)

rankNDC(vec, cfg, ndcCands) ==
    LET useNDC == (cfg.Mode # ModeSeeded /\ cfg.UseNDC) \/ cfg.Mode = ModeSplit
    IN  IF useNDC
        THEN truncateSuggestions(scoreCandidates(vec, ndcCands, cfg.WeightNDC, 0),
                                 cfg.TopK)
        ELSE <<>>

rankCombinedMerged(cfg, seeds, ndc, catCands, ndcCands) ==
    LET combined == IF cfg.Mode # ModeSeeded
                    THEN mergeSuggestions(seeds, ndc, cfg.TopK) ELSE seeds
    IN  IF cfg.ClusterCfg.Enabled /\ cfg.ClusterCfg.Threshold > 0
        THEN truncateSuggestions(
                clusterSuggestions(combined, cfg.ClusterCfg.Threshold,
                                   catCands, ndcCands), cfg.TopK)
        ELSE combined

rankCombined(cfg, seeds, ndc, catCands, ndcCands) ==
    LET combined == IF cfg.Mode = ModeMixed
                    THEN mergeSuggestions(seeds, ndc, cfg.TopK) ELSE seeds
    IN  IF cfg.ClusterCfg.Enabled /\ cfg.ClusterCfg.Threshold > 0
        THEN truncateSuggestions(
                clusterSuggestions(combined, cfg.ClusterCfg.Threshold,
                                   catCands, ndcCands), cfg.TopK)
        ELSE combined

\* The list needReview is given (service.go 293-300).
reviewRef(seeds, combined, ndc) ==
    IF Len(seeds) > 0 THEN seeds
    ELSE IF Len(combined) > 0 THEN combined ELSE ndc

\* The config value a step of RankOne reads: its local copy cfg.
LiveCfg == svcCfg
CallCfg == call.cfg

\* RankOne 228-239: empty text returns at once, else the text is embedded.
RankEmbed(text) ==
    /\ call.pc = "idle"
    /\ LET normalized == normalizeText(text)
           e == EmbedCached(normalized, cacheMem, cacheFiles)
           row0 == [EmptyAppRow EXCEPT !.Text = text]
       IN  IF normalized = ""
           THEN /\ call' = [CallIdle EXCEPT !.pc = "done", !.text = text,
                                            !.row = [row0 EXCEPT !.NeedReview = TRUE]]
                /\ UNCHANGED <<cacheMem, cacheFiles>>
           ELSE /\ call' = [CallIdle EXCEPT !.pc = IF e.ok THEN "embedded" ELSE "done",
                                            !.text = text, !.normalized = normalized,
                                            !.vec = e.vec, !.row = row0,
                                            !.err = ~e.ok]
                /\ cacheMem' = e.mem
                /\ cacheFiles' = e.files
    /\ UNCHANGED <<candsCat, candsNDC, svcCfg, nonAppVars>>

\* RankOne 241-248: the snapshot under the read lock.
RankSnapshot ==
    /\ call.pc = "embedded"
    /\ call' = [call EXCEPT !.pc = "seeds", !.cfg = svcCfg,
                            !.catCands = candsCat, !.ndcCands = candsNDC]
    /\ UNCHANGED <<candsCat, candsNDC, cacheMem, cacheFiles, svcCfg, nonAppVars>>

\* RankOne 250-254: hybrid scores of the seed candidates.
RankSeeds ==
    /\ call.pc = "seeds"
    /\ call' = [call EXCEPT !.pc = "ndc",
                            !.seeds = rankSeeds(call.normalized, call.vec, CallCfg,
                                                call.catCands),
                            !.used = @ \cup {CallCfg}]
    /\ UNCHANGED <<candsCat, candsNDC, cacheMem, cacheFiles, svcCfg, nonAppVars>>

\* RankOne 260-265: the taxonomy suggestions.
RankNDC ==
    /\ call.pc = "ndc"
    /\ call' = [call EXCEPT !.pc = "combine",
                            !.ndc = rankNDC(call.vec, CallCfg, call.ndcCands),
                            !.used = @ \cup {CallCfg}]
    /\ UNCHANGED <<candsCat, candsNDC, cacheMem, cacheFiles, svcCfg, nonAppVars>>

\* RankOne 267-287: the combined list by mode, clustered if enabled.
RankCombine ==
    /\ call.pc = "combine"
    /\ call' = [call EXCEPT !.pc = "review",
                            !.combined = rankCombined(CallCfg, call.seeds, call.ndc,
                                                      call.catCands, call.ndcCands),
                            !.used = @ \cup {CallCfg}]
    /\ UNCHANGED <<candsCat, candsNDC, cacheMem, cacheFiles, svcCfg, nonAppVars>>

\* RankOne 289-302: the row and its review flag.
RankReview ==
    /\ call.pc = "review"
    /\ LET ref == reviewRef(call.seeds, call.combined, call.ndc)
       IN  call' = [call EXCEPT
                       !.pc = "done", !.ref = ref,
                       !.row = [@ EXCEPT !.Suggestions = call.combined,
                                         !.SeedSuggestions = call.seeds,
                                         !.NDCSuggestions = call.ndc,
                                         !.NeedReview =
                                             needReview(ref, CallCfg.Thresh.Margin12)],
                       !.used = @ \cup {CallCfg}]
    /\ UNCHANGED <<candsCat, candsNDC, cacheMem, cacheFiles, svcCfg, nonAppVars>>

RankReturn ==
    /\ call.pc = "done"
    /\ call' = CallIdle
    /\ UNCHANGED <<candsCat, candsNDC, cacheMem, cacheFiles, svcCfg, nonAppVars>>

\* RankOne as one function of the text, its embedding and one snapshot.
RankOneRow(text, normalized, vec, cfg, catCands, ndcCands) ==
    LET seeds == rankSeeds(normalized, vec, cfg, catCands)
        ndc == rankNDC(vec, cfg, ndcCands)
        combined == rankCombined(cfg, seeds, ndc, catCands, ndcCands)
    IN  [Text |-> text, Suggestions |-> combined, SeedSuggestions |-> seeds,
         NDCSuggestions |-> ndc,
         NeedReview |-> needReview(reviewRef(seeds, combined, ndc),
                                   cfg.Thresh.Margin12)]

AppTexts == {" ", "X", "y", "bad"}

AppRankConfigs ==
    {[defaultConfig EXCEPT !.Mode = m, !.UseNDC = u, !.ClusterCfg = c.cl,
                           !.Thresh.Margin12 = c.m12] :
        m \in {ModeSeeded, ModeMixed, ModeSplit}, u \in BOOLEAN,
        c \in {[cl |-> [Enabled |-> FALSE, Threshold |-> 80], m12 |-> 3],
               [cl |-> [Enabled |-> TRUE, Threshold |-> 60], m12 |-> 0]}}

SeedLabelSets == {<<>>, <<"a">>, <<"a", "b">>, <<"b", "e">>, <<"a", "b", "e", "f">>}
NDCLabelSets == {<<>>, <<"c">>, <<"c", "d">>}

(***************************************************************************)
(* SpecApp: RankOne calls, step by step, while UpdateConfig runs.          *)
(***************************************************************************)
InitApp ==
    /\ IdleIdx
    /\ IdleRank
    /\ IdleReview
    /\ catIn = CatZeroConfig
    /\ catCfg = ApplyDefaults(CatZeroConfig)
    /\ \E cfg \in AppRankConfigs : svcCfg = sanitizeConfig(cfg)
    /\ \E labels \in SeedLabelSets : candsCat = embedLabelSet(labels, "seed", {})
    /\ \E labels \in NDCLabelSets : candsNDC = embedLabelSet(labels, "ndc", {})
    /\ cacheMem = {}
    /\ cacheFiles = {}
    /\ call = CallIdle
    /\ IdleBatch
    /\ IdlePure
    /\ IdleDisk
    /\ IdleEmb
    /\ IdleLoad
    /\ IdleRule

NextApp ==
    \/ \E text \in AppTexts : RankEmbed(text)
    \/ RankSnapshot \/ RankSeeds \/ RankNDC \/ RankCombine \/ RankReview
    \/ RankReturn
    \/ UpdateConfigFrom(AppRankConfigs)

SpecApp == InitApp /\ [][NextApp]_vars

CallRanked == call.pc = "done" /\ ~call.err /\ call.normalized # ""

FromTaxonomy(sug) == "ndc" \in Range(sug.Source)

\* C8: every config-dependent decision of one ranking call reads the same
\* config value, the one snapshotted at the start of the call, also when
\* UpdateConfig stores other configs while the call runs: the row is RankOne's
\* result for that one config.
C8_OneConfigPerCall ==
    /\ call.used \subseteq {call.cfg}
    /\ CallRanked =>
          /\ call.used = {call.cfg}
          /\ call.row = RankOneRow(call.text, call.normalized, call.vec, call.cfg,
                                   call.catCands, call.ndcCands)

\* A call finished after UpdateConfig stored a config under which the row
\* would have been another one.
C8_Witness ==
    /\ CallRanked
    /\ svcCfg # call.cfg
    /\ call.row # RankOneRow(call.text, call.normalized, call.vec, svcCfg,
                             call.catCands, call.ndcCands)

\* C10 as stated: in every mode needReview is computed from the seed-only
\* top-k list and never from a list that contains taxonomy suggestions.
C10_ReviewFromSeedsOnly ==
    CallRanked =>
        /\ call.ref = call.row.SeedSuggestions
        /\ \A i \in DOMAIN call.ref : ~FromTaxonomy(call.ref[i])

TaxonomyLabels == {call.ndcCands[i].Label : i \in DOMAIN call.ndcCands}

\* C14: in split mode the seed ranking and the taxonomy ranking are returned
\* as two lists that are never merged: no suggestion of the main list has
\* the taxonomy as a source, a taxonomy label as its label or as an alias,
\* and the taxonomy list holds taxonomy suggestions only.
C14_SplitListsSeparate ==
    CallRanked /\ call.cfg.Mode = ModeSplit =>
        /\ \A i \in DOMAIN call.row.Suggestions :
              LET sug == call.row.Suggestions[i]
              IN  /\ ~FromTaxonomy(sug)
                  /\ sug.Label \notin TaxonomyLabels
                  /\ Range(sug.Aliases) \cap TaxonomyLabels = {}
        /\ \A i \in DOMAIN call.row.NDCSuggestions :
              LET sug == call.row.NDCSuggestions[i]
              IN  /\ sug.Source = <<"ndc">>
                  /\ sug.Label \in TaxonomyLabels

\* A split-mode call with clustering returned seed suggestions, one of them
\* a merged cluster, and taxonomy suggestions.
C14_Witness ==
    /\ CallRanked
    /\ call.cfg.Mode = ModeSplit
    /\ call.cfg.ClusterCfg.Enabled
    /\ \E i \in DOMAIN call.row.Suggestions : call.row.Suggestions[i].Aliases # <<>>
    /\ call.row.NDCSuggestions # <<>>

\* The full ranking of a call: every seed suggestion, and in mixed mode with
\* the taxonomy in use every taxonomy suggestion too, by descending score.
FullRanking ==
    LET hybridAll == applyHybridScoring(call.normalized, call.vec, call.catCands,
                                        call.cfg.SeedBias)
        ndcAll == scoreCandidates(call.vec, call.ndcCands, call.cfg.WeightNDC, 0)
    IN  IF call.cfg.Mode = ModeMixed /\ call.cfg.UseNDC
        THEN SortStableByScore(hybridAll \o ndcAll)
        ELSE hybridAll

\* C15: in seeded and mixed mode with clustering enabled, the returned list
\* is the first topK entries of the clustered full ranking: clustering comes
\* before truncation.
C15_ClusterBeforeTruncate ==
    /\ CallRanked
    /\ call.cfg.Mode \in {ModeSeeded, ModeMixed}
    /\ call.cfg.ClusterCfg.Enabled
    /\ call.cfg.ClusterCfg.Threshold > 0
    => call.row.Suggestions =
          truncateSuggestions(
              clusterSuggestions(FullRanking, call.cfg.ClusterCfg.Threshold,
                                 call.catCands, call.ndcCands),
              call.cfg.TopK)

(***************************************************************************)
(* Batch classification: app.Service.ClassifyAll (app/service.go 212-226), *)
(* categorizer.Service.ClassifyAll (categorizer/service.go 145-157) with   *)
(* OrtEmbedder.EmbedTexts, and the first GUI's onClassify, which starts    *)
(* one goroutine per line.                                                 *)
(***************************************************************************)
MaxTexts == 3

BatchTexts == {"X", "y", "bad", " "}

\* RankOne of app/service.go as one step on the current service state.
RankOne(text, cfg, catCands, ndcCands, mem, files) ==
    LET normalized == normalizeText(text)
        e == EmbedCached(normalized, mem, files)
        row0 == [EmptyAppRow EXCEPT !.Text = text]
    IN  IF normalized = ""
        THEN [err |-> FALSE, row |-> [row0 EXCEPT !.NeedReview = TRUE],
              mem |-> mem, files |-> files]
        ELSE IF ~e.ok
        THEN [err |-> TRUE, row |-> row0, mem |-> e.mem, files |-> e.files]
        ELSE [err |-> FALSE,
              row |-> RankOneRow(text, normalized, e.vec, cfg, catCands, ndcCands),
              mem |-> e.mem, files |-> e.files]

\* categorizer.NormalizeText and the first GUI's normalize: NFKC and trim.
NormalizeText(t) ==
    CASE t = " " -> ""
      [] t = "x.fw" -> "x"
      [] OTHER -> t

\* OrtEmbedder.EmbedText: memory, then disk, then the encoder.
EmbedText(text, mem, files) == EmbedCached(NormalizeText(text), mem, files)

\* RankOne of the first GUI's service: cosine scores of all candidates, the
\* three-threshold review flag.
RankOneV0(text, cfg, catCands, ndcCands, mem) ==
    LET t == NormalizeText(text)
        key == cacheKey(t, "")
        cached == CacheHas(mem, key)
        q == IF cached THEN CacheGet(mem, key) ELSE Encode(t)
        cands == IF cfg.UseNDC THEN catCands \o ndcCands ELSE catCands
        scored == SortStableByScore(
                    [i \in DOMAIN cands |->
                        [Label |-> cands[i].Label,
                         Score |-> clamp01(
                             mulScaled(Max(cosine32(q, cands[i].Vec), 0),
                                       IF cands[i].Source = "ndc"
                                       THEN cfg.WeightNDC ELSE Scale)
                             + tinyBias(cands[i].Label)),
                         Source |-> cands[i].Source]])
        k == Min(Min(Max(cfg.TopK, 1), 5), Len(scored))
        top == SubSeq(scored, 1, k)
    IN  IF t = ""
        THEN [err |-> FALSE, row |-> [Text |-> text, Top |-> <<>>, NeedReview |-> TRUE],
              mem |-> mem]
        ELSE IF ~cached /\ EncodeFails(t)
        THEN [err |-> TRUE, row |-> [Text |-> text, Top |-> <<>>, NeedReview |-> FALSE],
              mem |-> mem]
        ELSE IF Len(cands) = 0
        THEN [err |-> TRUE, row |-> [Text |-> text, Top |-> <<>>, NeedReview |-> FALSE],
              mem |-> CachePut(mem, key, q)]
        ELSE [err |-> FALSE,
              row |-> [Text |-> text, Top |-> top,
                       NeedReview |-> needReviewThresh(top, cfg.Thresh)],
              mem |-> CachePut(mem, key, q)]

\* splitNonEmptyLines: the trimmed lines that are not empty.
splitNonEmptyLines(texts) == SelectSeq(texts, LAMBDA t : NormalizeText(t) # "")

\* results[i] = row: the slot of the input's position.
StoreRowFirstFree(rows, idx, row, zero) ==
    LET free == {j \in DOMAIN rows : rows[j] = zero}
    IN  IF free = {} THEN rows
        ELSE [rows EXCEPT ![CHOOSE j \in free : \A m \in free : j <= m] = row]
StoreRow(rows, idx, row, zero) == [rows EXCEPT ![idx] = row]

CountCancelled == IF batch.cancelled THEN batch.afterCancel + 1 ELSE batch.afterCancel

Failed == [rows |-> <<>>, err |-> TRUE, errors |-> 1]

\* app ClassifyAll: one iteration of the loop.
AppClassifyItem ==
    /\ batch.driver = "app" /\ batch.pc = "run" /\ batch.i <= Len(batch.texts)
    /\ \E r \in {RankOne(batch.texts[batch.i], svcCfg, candsCat, candsNDC,
                        cacheMem, cacheFiles)} :
           /\ cacheMem' = r.mem
           /\ cacheFiles' = r.files
           /\ batch' = IF r.err
                       THEN [batch EXCEPT !.pc = "returned", !.out = Failed,
                                          !.afterCancel = CountCancelled]
                       ELSE [batch EXCEPT !.rows = StoreRow(@, batch.i, r.row, EmptyAppRow),
                                          !.order = Append(@, batch.i),
                                          !.i = @ + 1,
                                          !.afterCancel = CountCancelled]
    /\ UNCHANGED nonBatVars

\* app ClassifyAll: return results, nil.
AppClassifyReturn ==
    /\ batch.driver = "app" /\ batch.pc = "run" /\ batch.i > Len(batch.texts)
    /\ batch' = [batch EXCEPT !.pc = "returned",
                              !.out = [rows |-> batch.rows, err |-> FALSE, errors |-> 0]]
    /\ UNCHANGED <<cacheMem, cacheFiles, nonBatVars>>

\* EmbedTexts: one text.
CatEmbedItem ==
    /\ batch.driver = "cat" /\ batch.pc = "run" /\ batch.i <= Len(batch.texts)
    /\ \E e \in {EmbedText(NormalizeText(batch.texts[batch.i]), cacheMem, cacheFiles)} :
           /\ cacheMem' = e.mem
           /\ cacheFiles' = e.files
           /\ batch' = IF ~e.ok
                       THEN [batch EXCEPT !.pc = "returned", !.out = Failed,
                                          !.afterCancel = CountCancelled]
                       ELSE [batch EXCEPT !.vecs = Append(@, e.vec), !.i = @ + 1,
                                          !.afterCancel = CountCancelled]
    /\ UNCHANGED nonBatVars

\* categorizer ClassifyAll after EmbedTexts returned the vectors.
CatStartRank ==
    /\ batch.driver = "cat" /\ batch.pc = "run" /\ batch.i > Len(batch.texts)
    /\ batch' = [batch EXCEPT !.pc = "rank", !.i = 1]
    /\ UNCHANGED <<cacheMem, cacheFiles, nonBatVars>>

\* row.Text = originalText on the row rankForVector built (service.go 214-217).
CatRowOf(text, r) ==
    [Text |-> text, Suggestions |-> r.Suggestions,
     NDCSuggestions |-> r.NDCSuggestions]

CatRow(text, vec) == CatRowOf(text, rankForVector(seedsIdx, ndcIdx, vec, catCfg))

\* rows = append(rows, s.rankForVector(vec, texts[i], cfg)).
CatRankItem ==
    /\ batch.driver = "cat" /\ batch.pc = "rank" /\ batch.i <= Len(batch.texts)
    /\ batch' = [batch EXCEPT
                    !.rows = Append(@, CatRow(batch.texts[batch.i], batch.vecs[batch.i])),
                    !.order = Append(@, batch.i),
                    !.i = @ + 1,
                    !.afterCancel = CountCancelled]
    /\ UNCHANGED <<cacheMem, cacheFiles, nonBatVars>>

CatReturn ==
    /\ batch.driver = "cat" /\ batch.pc = "rank" /\ batch.i > Len(batch.texts)
    /\ batch' = [batch EXCEPT !.pc = "returned",
                              !.out = [rows |-> batch.rows, err |-> FALSE, errors |-> 0]]
    /\ UNCHANGED <<cacheMem, cacheFiles, nonBatVars>>

ZeroRowV0 == [Text |-> "", Top |-> <<>>, NeedReview |-> FALSE]

\* onClassify: the goroutine of line idx.  firstErr is written without
\* synchronisation: either write may be the one that is read after Wait.
GuiWorker(idx) ==
    /\ batch.driver = "gui" /\ batch.pc = "run"
    /\ idx \in DOMAIN batch.workers
    /\ batch.workers[idx] = "todo"
    /\ \E r \in {RankOneV0(batch.texts[idx], svcCfg, candsCat, candsNDC, cacheMem)} :
           /\ cacheMem' = r.mem
           /\ IF r.err
              THEN \E winner \in {idx} \cup ({batch.firstErr} \ {0}) :
                      batch' = [batch EXCEPT !.workers[idx] = "done",
                                             !.firstErr = winner]
              ELSE batch' = [batch EXCEPT !.workers[idx] = "done",
                                          !.rows = StoreRow(@, idx, r.row, ZeroRowV0),
                                          !.order = Append(@, idx)]
    /\ UNCHANGED <<cacheFiles, nonBatVars>>

\* onClassify after wg.Wait(): one error dialog, or the rows.
GuiFinish ==
    /\ batch.driver = "gui" /\ batch.pc = "run"
    /\ \A idx \in DOMAIN batch.workers : batch.workers[idx] = "done"
    /\ batch' = [batch EXCEPT
                    !.pc = "returned",
                    !.out = IF batch.firstErr # 0 THEN Failed
                            ELSE [rows |-> batch.rows, err |-> FALSE, errors |-> 0]]
    /\ UNCHANGED <<cacheMem, cacheFiles, nonBatVars>>

\* The caller cancels the context it passed to ClassifyAll.
Cancel ==
    /\ batch.driver \in {"app", "cat"}
    /\ batch.pc # "returned"
    /\ ~batch.cancelled
    /\ batch' = [batch EXCEPT !.cancelled = TRUE]
    /\ UNCHANGED <<cacheMem, cacheFiles, nonBatVars>>

TextLists == UNION {[1..n -> BatchTexts] : n \in 0..MaxTexts}

StartBatch(driver, texts) ==
    LET lines == IF driver = "gui" THEN splitNonEmptyLines(texts) ELSE texts
    IN  [NoBatch EXCEPT
            !.driver = driver, !.texts = lines, !.pc = "run", !.i = 1,
            !.rows = CASE driver = "app" -> [j \in DOMAIN lines |-> EmptyAppRow]
                       [] driver = "gui" -> [j \in DOMAIN lines |-> ZeroRowV0]
                       [] OTHER -> <<>>,
            !.workers = IF driver = "gui" THEN [j \in DOMAIN lines |-> "todo"]
                        ELSE <<>>]

(***************************************************************************)
(* SpecBatch: one batch over every list of at most MaxTexts texts, by each *)
(* of the three drivers, on services with seeds a, b and NDC entry c.      *)
(***************************************************************************)
InitBatch ==
    /\ IdleIdx
    /\ IdleReview
    /\ svcCfg = sanitizeConfig(defaultConfig)
    /\ catIn = CatZeroConfig
    /\ catCfg = ApplyDefaults(CatZeroConfig)
    /\ seedsIdx = <<[Label |-> "a", Source |-> "seed", Vector |-> <<1, 0>>],
                    [Label |-> "b", Source |-> "seed", Vector |-> <<1, 1>>]>>
    /\ ndcIdx = <<[Label |-> "c", Source |-> "ndc", Vector |-> <<1, 0>>]>>
    /\ catRow = NoRow
    /\ candsCat = embedLabelSet(<<"a", "b">>, "seed", {})
    /\ candsNDC = embedLabelSet(<<"c">>, "ndc", {})
    /\ cacheMem = {}
    /\ cacheFiles = {}
    /\ call = CallIdle
    /\ \E driver \in {"app", "cat", "gui"}, texts \in TextLists :
         batch = StartBatch(driver, texts)
    /\ IdlePure
    /\ IdleDisk
    /\ IdleEmb
    /\ IdleLoad
    /\ IdleRule

NextBatch ==
    \/ AppClassifyItem \/ AppClassifyReturn
    \/ CatEmbedItem \/ CatStartRank \/ CatRankItem \/ CatReturn
    \/ \E idx \in 1..MaxTexts : GuiWorker(idx)
    \/ GuiFinish
    \/ Cancel

SpecBatch == InitBatch /\ [][NextBatch]_vars


BatchReturned == batch.driver # "none" /\ batch.pc = "returned"

\* A text whose ranking fails: the encoder rejects it.
RankFails(t) == EncodeFails(NormalizeText(t))

\* The row a driver computes for one text on its own.
RowOf(driver, t) ==
    CASE driver = "app" -> RankOne(t, svcCfg, candsCat, candsNDC, {}, {}).row
      [] driver = "cat" -> CatRow(t, Encode(NormalizeText(NormalizeText(t))))
      [] OTHER -> RankOneV0(t, svcCfg, candsCat, candsNDC, {}).row

\* C5: a batch that has returned gives every text whose ranking did not fail
\* its row, and reports one error for each text whose ranking failed.
C5_FailureDoesNotAbortBatch ==
    BatchReturned =>
        /\ Len(batch.out.rows) = Len(batch.texts)
        /\ \A i \in DOMAIN batch.texts :
              ~RankFails(batch.texts[i]) =>
                  batch.out.rows[i] = RowOf(batch.driver, batch.texts[i])
        /\ batch.out.errors =
              Cardinality({i \in DOMAIN batch.texts : RankFails(batch.texts[i])})

\* C6: a batch that returned without error has one row per input text, and
\* row i is the result for input text i, whatever order the workers ran in.
C6_RowsInInputOrder ==
    (BatchReturned /\ ~batch.out.err) =>
        /\ Len(batch.out.rows) = Len(batch.texts)
        /\ \A i \in DOMAIN batch.texts :
              batch.out.rows[i] = RowOf(batch.driver, batch.texts[i])

\* A parallel batch over different texts whose last line finished first.
C6_Witness ==
    /\ BatchReturned
    /\ ~batch.out.err
    /\ batch.driver = "gui"
    /\ Len(batch.texts) = MaxTexts
    /\ batch.order[1] = MaxTexts
    /\ RowOf("gui", batch.texts[1]) # RowOf("gui", batch.texts[MaxTexts])

\* C7: after the caller has cancelled the context, the batch embeds and
\* ranks no further text.
C7_NoWorkAfterCancel == batch.afterCancel = 0

(***************************************************************************)
(* Properties of the rows categorizer.Service.ClassifyAll returns.         *)
(***************************************************************************)
InUnitInterval(sugs) ==
    \A i \in DOMAIN sugs : sugs[i].Score >= 0 /\ sugs[i].Score <= Scale

\* C11: every score of every returned suggestion list lies in [0,1], after
\* weighting, seed bias, tie-break bias and damping, in every mode.
C11_ScoresInUnitInterval ==
    catRow.called =>
        /\ InUnitInterval(catRow.row.Suggestions)
        /\ InUnitInterval(catRow.row.NDCSuggestions)

(***************************************************************************)
(* SpecHybrid: applyHybridScoring on every text, every list of seed        *)
(* candidates over the keys a, b (a VR key), e and f (the damped keys) and *)
(* every seed bias sanitizeConfig can store.  Text "z" holds a strong      *)
(* keyword of b and one of e, text "w" a strong and an anti keyword of e.  *)
(***************************************************************************)
HybridTexts == {"x", "y", "z", "w"}
HybridLabelLists ==
    {<<"e">>, <<"b", "e">>, <<"e", "b">>, <<"a", "b", "e">>, <<"b", "f", "e">>,
     <<"a", "e", "f">>, <<"a", "b", "e", "f">>, <<"b">>, <<"a", "f">>}
HybridBiases == {0, 3, 20}

\* hybridAll, _, _ := applyHybridScoring(normalized, catCands, baseScores,
\* cfg.SeedBias) on the call's arguments.
ApplyHybrid ==
    /\ fnCall.op = "hybrid"
    /\ fnCall.out = <<>>
    /\ fnCall' = [fnCall EXCEPT !.out =
                     applyHybridScoring(fnCall.args.text, fnCall.args.vec,
                                        fnCall.args.cands, fnCall.args.seedBias)]
    /\ UNCHANGED nonPureVars

InitHybrid ==
    /\ IdleIdx
    /\ IdleCfg
    /\ IdleRank
    /\ IdleReview
    /\ IdleApp
    /\ IdleBatch
    /\ IdleDisk
    /\ IdleEmb
    /\ IdleLoad
    /\ IdleRule
    /\ \E text \in HybridTexts, labels \in HybridLabelLists, bias \in HybridBiases :
         fnCall = [op |-> "hybrid",
                   args |-> [text |-> text, vec |-> Encode(text),
                             cands |-> embedLabelSet(labels, "seed", {}),
                             seedBias |-> bias],
                   out |-> <<>>]

NextHybrid == ApplyHybrid

SpecHybrid == InitHybrid /\ [][NextHybrid]_vars

HybridDone == fnCall.op = "hybrid" /\ fnCall.out # <<>>

StrongHits(c) == countRuleHits(fnCall.args.text, categoryRulesOf(c.Key)).strong

\* The score applyHybridScoring reported for a candidate.
ReportedScore(c) ==
    LET i == CHOOSE j \in DOMAIN fnCall.out : fnCall.out[j].Label = c.Label
    IN  fnCall.out[i].Score

VRSignal ==
    \E i \in DOMAIN fnCall.args.cands :
        /\ fnCall.args.cands[i].Key \in vrCategoryKeySet
        /\ StrongHits(fnCall.args.cands[i]) > 0

\* C12 as stated: a seed candidate with at least one strong keyword hit is
\* never reported with a score below the floor 0.60, whatever its cosine
\* score, its anti-keyword hits or any cross-category damping.
C12_StrongHitNeverBelowFloor ==
    HybridDone =>
        \A i \in DOMAIN fnCall.args.cands :
            StrongHits(fnCall.args.cands[i]) > 0 =>
                ReportedScore(fnCall.args.cands[i]) >= floorForced

\* C12 amended: a seed candidate with at least one strong keyword hit is
\* reported with a score of at least the floor 0.60, whatever its cosine score
\* and its anti-keyword hits, unless it is one of the damped categories and a
\* VR category has a strong hit too: then dampValue is taken off after the
\* floor, and its score is at least 0.60 - 0.03.
C12_StrongHitFlooredBeforeDamping ==
    HybridDone =>
        \A i \in DOMAIN fnCall.args.cands :
            LET c == fnCall.args.cands[i]
                damped == VRSignal /\ \E t \in DOMAIN dampCategoryKeys :
                                         dampCategoryKeys[t] = c.Key
            IN  StrongHits(c) > 0 =>
                    /\ ReportedScore(c) >= floorForced - dampValue
                    /\ ~damped => ReportedScore(c) >= floorForced
                    /\ damped => ReportedScore(c) >=
                                    Min(floorForced + fnCall.args.seedBias, Scale)
                                        - dampValue

\* A candidate with a strong hit, an anti hit and cosine 0 that is reported at
\* the floor.
C12_Witness ==
    /\ HybridDone
    /\ \E i \in DOMAIN fnCall.args.cands :
          LET c == fnCall.args.cands[i]
          IN  /\ StrongHits(c) > 0
              /\ countRuleHits(fnCall.args.text, categoryRulesOf(c.Key)).anti > 0
              /\ computeBaseScore(fnCall.args.vec, c) = 0
              /\ ReportedScore(c) = floorForced


(***************************************************************************)
(* The weighting service: rankForVector with applySourceWeight.  Its       *)
(* scores are kept in units of 0.000000001, so that the tie-break bias,    *)
(* which is below 0.000001, is visible; one unit of Scale is Nano of them. *)
(***************************************************************************)
Nano == 10000000

\* (float32(fnv32a(label)) / (1<<32 - 1)) * 1e-6 for the labels of the model,
\* in units of 0.000000001: fnv32a("a") = 3826002220, fnv32a("b") = 3876335077,
\* fnv32a("c") = 3859557458, fnv32a("d") = 3775669363.
tinyBiasNano(label) ==
    CASE label = "a" -> 891
      [] label = "b" -> 903
      [] label = "c" -> 899
      [] label = "d" -> 879
      [] OTHER -> 0

\* The spacing of float32 values around a score, in units of 0.000000001:
\* 2^-23 from 1.0 up, 2^-24 from 0.5 up, and so on; around 0 the bias is
\* stored exactly.
float32Spacing(score) ==
    IF score >= 100 THEN 119
    ELSE IF score >= 50 THEN 60
    ELSE IF score >= 25 THEN 30
    ELSE IF score >= 13 THEN 15
    ELSE IF score >= 7 THEN 7
    ELSE IF score >= 4 THEN 4
    ELSE IF score >= 2 THEN 2
    ELSE 1

\* score += tinyBias(label) in float32: the sum is rounded to the nearest
\* float32, a multiple of the spacing away from score.
addTinyBias(score, label) ==
    LET sp == float32Spacing(score)
    IN  score * Nano + ((2 * tinyBiasNano(label) + sp) \div (2 * sp)) * sp

clampTopK(k) == IF k < 3 THEN 3 ELSE IF k > 5 THEN 5 ELSE k

\* applySourceWeight: the hits keep their order, each score becomes
\* min(max(score, 0) * weight, 1) + tinyBias(label).
applySourceWeight(hits, weight) ==
    LET w == IF weight < 0 THEN 0 ELSE IF weight > Scale THEN Scale ELSE weight
    IN  [i \in DOMAIN hits |->
            [hits[i] EXCEPT !.Score =
                addTinyBias(Min(mulScaled(Max(hits[i].Score, 0), w), Scale),
                            hits[i].Label)]]

\* rankForVector of the weighting service.
rankForVectorWeighted(seeds, ndc, vec, cfg) ==
    LET topK == clampTopK(cfg.TopK)
        seedHits == applySourceWeight(Search(seeds, vec, topK * 3), Scale)
        ndcHits == IF cfg.UseNDC
                   THEN applySourceWeight(Search(ndc, vec, topK * 3), cfg.WeightNDC)
                   ELSE <<>>
        tau == cfg.Cluster.Threshold
        clusteredSeeds == IF cfg.Cluster.Enabled THEN clusterHits(seedHits, tau)
                          ELSE seedHits
        limitedNDC == IF cfg.UseNDC THEN hitsToSuggestions(limitHits(ndcHits, topK))
                      ELSE <<>>
    IN  CASE cfg.Mode = ModeSeeded ->
                [Suggestions |-> hitsToSuggestions(limitHits(clusteredSeeds, topK)),
                 NDCSuggestions |-> limitedNDC]
          [] cfg.Mode = ModeSplit ->
                [Suggestions |-> hitsToSuggestions(limitHits(clusteredSeeds, topK)),
                 NDCSuggestions |->
                    IF cfg.UseNDC /\ cfg.Cluster.Enabled
                    THEN hitsToSuggestions(limitHits(clusterHits(ndcHits, tau), topK))
                    ELSE limitedNDC]
          [] cfg.Mode = ModeMixed ->
                LET weighted == seedHits \o ndcHits
                    clustered == IF cfg.Cluster.Enabled THEN clusterHits(weighted, tau)
                                 ELSE weighted
                IN  [Suggestions |->
                        hitsToSuggestions(limitHits(SortHits(clustered), topK)),
                     NDCSuggestions |-> <<>>]
          [] OTHER ->
                [Suggestions |-> hitsToSuggestions(limitHits(clusteredSeeds, topK)),
                 NDCSuggestions |-> <<>>]

(***************************************************************************)
(* SpecWeighted: rankForVector of the weighting service on every query     *)
(* vector, every seed store over the labels a and b, every NDC store over  *)
(* c and d, and configs of every mode with and without clustering.         *)
(***************************************************************************)
WeightedConfigs ==
    {[Mode |-> m, TopK |-> k, WeightNDC |-> w,
      Cluster |-> [Enabled |-> en, Threshold |-> 80], UseNDC |-> u] :
        m \in {ModeSeeded, ModeMixed, ModeSplit, "bogus"}, k \in {1, 3},
        w \in {50, 85, 120}, en \in BOOLEAN, u \in BOOLEAN}

RankWeighted ==
    /\ fnCall.op = "rankWeighted"
    /\ fnCall.out = <<>>
    /\ fnCall' = [fnCall EXCEPT !.out =
                     <<rankForVectorWeighted(fnCall.args.seeds, fnCall.args.ndc,
                                             fnCall.args.vec, fnCall.args.cfg)>>]
    /\ UNCHANGED nonPureVars

InitWeighted ==
    /\ IdleIdx
    /\ IdleCfg
    /\ IdleRank
    /\ IdleReview
    /\ IdleApp
    /\ IdleBatch
    /\ IdleDisk
    /\ IdleEmb
    /\ IdleLoad
    /\ IdleRule
    /\ \E seeds \in SeedStores, ndc \in NDCStores, vec \in QueryVecs,
          cfg \in WeightedConfigs :
         fnCall = [op |-> "rankWeighted",
                   args |-> [seeds |-> seeds, ndc |-> ndc, vec |-> vec, cfg |-> cfg],
                   out |-> <<>>]

NextWeighted == RankWeighted

SpecWeighted == InitWeighted /\ [][NextWeighted]_vars

WeightedDone == fnCall.op = "rankWeighted" /\ fnCall.out # <<>>

NonIncreasing(sugs) ==
    \A i, j \in DOMAIN sugs : i < j => sugs[i].Score >= sugs[j].Score

\* C13: every suggestion list a ranking call returns, the seed list and the
\* NDC list alike, is in non-increasing order of the scores it carries, in
\* every mode.
C13_ListsNonIncreasing ==
    WeightedDone =>
        /\ NonIncreasing(fnCall.out[1].Suggestions)
        /\ NonIncreasing(fnCall.out[1].NDCSuggestions)


(***************************************************************************)
(* SpecCluster: clusterSuggestions on every descending list of up to       *)
(* MaxCluster suggestions with distinct labels, and clusterHits on every   *)
(* list of hits that is two descending lists, one after the other, for     *)
(* every assignment of vectors to the labels (a label may have none)       *)
(* and the thresholds 0.60 and 1.0.  <<1, 0>> and <<2, 0>> are distinct    *)
(* vectors of the same direction.                                          *)
(***************************************************************************)
MaxCluster == 3

ClusterLabels == {"a", "b", "c"}
ClusterVecs == {<<>>, <<1, 0>>, <<2, 0>>, <<1, 1>>, <<0, 1>>}
ClusterScores == {40, 70, 90}
ClusterTaus == {60, Scale}

\* The sequences of distinct labels of length n and shorter.
RECURSIVE LabelSeqs(_)
LabelSeqs(n) ==
    IF n = 0 THEN {<<>>}
    ELSE LabelSeqs(n - 1) \cup
         {Append(s, l) : s \in {t \in LabelSeqs(n - 1) : Len(t) = n - 1},
                         l \in ClusterLabels}

DistinctSeq(s) == \A i, j \in DOMAIN s : i # j => s[i] # s[j]

Descending(scores, from, to) ==
    \A i, j \in from..to : i < j => scores[i] >= scores[j]

\* seedVec and ndcVec as candidate lists: a and b are seed labels, c is a
\* taxonomy label; a label whose vector is <<>> is in neither map.
ClusterCands(vecOf, labels, source) ==
    LET all == [i \in 1..Len(labels) |->
                   [Label |-> labels[i], Key |-> labels[i], Vec |-> vecOf[labels[i]],
                    Source |-> source]]
    IN  SelectSeq(all, LAMBDA c : c.Vec # <<>>)

ClusterSuggestionsCall ==
    /\ fnCall.op = "clusterSuggestions"
    /\ fnCall.out = <<>>
    /\ fnCall' = [fnCall EXCEPT !.out =
                     <<clusterSuggestions(fnCall.args.in, fnCall.args.tau,
                                          fnCall.args.catCands, fnCall.args.ndcCands)>>]
    /\ UNCHANGED nonPureVars

ClusterHitsCall ==
    /\ fnCall.op = "clusterHits"
    /\ fnCall.out = <<>>
    /\ fnCall' = [fnCall EXCEPT !.out =
                     <<clusterHits(fnCall.args.in, fnCall.args.tau)>>]
    /\ UNCHANGED nonPureVars

InitCluster ==
    /\ IdleIdx
    /\ IdleCfg
    /\ IdleRank
    /\ IdleReview
    /\ IdleApp
    /\ IdleBatch
    /\ IdleDisk
    /\ IdleEmb
    /\ IdleLoad
    /\ IdleRule
    /\ \E labels \in {s \in LabelSeqs(MaxCluster) : DistinctSeq(s)},
          vecOf \in [ClusterLabels -> ClusterVecs], tau \in ClusterTaus :
         \E scores \in [1..Len(labels) -> ClusterScores] :
            \/ /\ Descending(scores, 1, Len(labels))
               /\ fnCall =
                     [op |-> "clusterSuggestions",
                      args |-> [in |-> [i \in 1..Len(labels) |->
                                           [Label |-> labels[i], Score |-> scores[i],
                                            Source |-> <<"seed">>, Aliases |-> <<>>]],
                                tau |-> tau,
                                catCands |-> ClusterCands(vecOf, <<"a", "b">>, "seed"),
                                ndcCands |-> ClusterCands(vecOf, <<"c">>, "ndc")],
                      out |-> <<>>]
            \/ /\ \E k \in 0..Len(labels) :
                     /\ Descending(scores, 1, k)
                     /\ Descending(scores, k + 1, Len(labels))
               /\ fnCall =
                     [op |-> "clusterHits",
                      args |-> [in |-> [i \in 1..Len(labels) |->
                                           [Label |-> labels[i], Score |-> scores[i],
                                            Source |-> IF labels[i] = "c" THEN "ndc"
                                                       ELSE "seed",
                                            Vector |-> vecOf[labels[i]]]],
                                tau |-> tau],
                      out |-> <<>>]

NextCluster == ClusterSuggestionsCall \/ ClusterHitsCall

SpecCluster == InitCluster /\ [][NextCluster]_vars

ClusterDone == fnCall.op \in {"clusterSuggestions", "clusterHits"} /\ fnCall.out # <<>>

\* The other labels an output entry keeps: Aliases of a suggestion, the
\* labels clusterHits lists after the representative's label.
AliasesOf(e) == IF "Aliases" \in DOMAIN e THEN e.Aliases
                ELSE IF "Similar" \in DOMAIN e THEN e.Similar ELSE <<>>

ClusterLabelsOf(e) == {e.Label} \cup Range(AliasesOf(e))

\* C16: after clustering the label sets of the output entries partition the
\* input labels (no label is dropped, none is kept twice), an entry's own
\* label is not among its aliases, and the entry carries the label and the
\* score of a highest-scoring input suggestion of its label set.
C16_RepresentativeAndAliases ==
    ClusterDone =>
        LET in == fnCall.args.in
            out == fnCall.out[1]
        IN  /\ UNION {ClusterLabelsOf(out[i]) : i \in DOMAIN out}
                 = {in[i].Label : i \in DOMAIN in}
            /\ \A i, j \in DOMAIN out :
                  i # j => ClusterLabelsOf(out[i]) \cap ClusterLabelsOf(out[j]) = {}
            /\ \A i \in DOMAIN out :
                  /\ out[i].Label \notin Range(AliasesOf(out[i]))
                  /\ DistinctSeq(AliasesOf(out[i]))
                  /\ \E m \in DOMAIN in :
                        /\ in[m].Label = out[i].Label
                        /\ in[m].Score = out[i].Score
                  /\ \A m \in DOMAIN in :
                        in[m].Label \in ClusterLabelsOf(out[i])
                            => in[m].Score <= out[i].Score

\* A cluster of three: an entry that keeps two aliases.
C16_Witness ==
    /\ ClusterDone
    /\ fnCall.op = "clusterSuggestions"
    /\ \E i \in DOMAIN fnCall.out[1] : Len(fnCall.out[1][i].Aliases) = 2

\* The vector the clusterer compares for an input entry.
ClusterVecOf(e) ==
    IF fnCall.op = "clusterHits" THEN e.Vector
    ELSE lookup(fnCall.args.catCands, fnCall.args.ndcCands, e.Label)

\* C17: with tau = 1.0 suggestions whose vectors are pairwise different are
\* never merged: the output is as long as the input.
C17_TauOneKeepsDistinctVectors ==
    LET in == fnCall.args.in
    IN  /\ ClusterDone
        /\ fnCall.args.tau = Scale
        /\ \A i, j \in DOMAIN in : i # j => ClusterVecOf(in[i]) # ClusterVecOf(in[j])
        => Len(fnCall.out[1]) = Len(in)


(***************************************************************************)
(* The cache directories.  A file is a sequence of 4-byte words: the       *)
(* little-endian count, then one word per float32.  A float word names the *)
(* model and the text it was encoded from, so that a vector tells where it *)
(* comes from.  An "app" process is app.Service with embedCache (cache.go, *)
(* EmbedCached), an "ort" process is categorizer's OrtEmbedder             *)
(* (embedder.go); the two keep their files in different directories.       *)
(***************************************************************************)
MaxCrashes == 1
MaxCalls == 3

CacheKinds == {"app", "ort"}
CacheModels == {"m", "b|m"}
CacheTexts == {"a", "a|b"}

\* The dimension of a model's embeddings.
Dim(model) == IF model = "m" THEN 1 ELSE 2

LenWord(n) == [k |-> "len", m |-> "", t |-> "", i |-> n]
FloatWord(model, text, i) == [k |-> "f", m |-> model, t |-> text, i |-> i]
ZeroWord == [k |-> "zero", m |-> "", t |-> "", i |-> 0]

\* s.emb.Encode(text) of a process whose model is model.
EncodeVec(model, text) == [i \in 1..Dim(model) |-> FloatWord(model, text, i)]

\* The buffer save and saveToDisk write: uint32(len(v)), then v.
FileImage(vec) == <<LenWord(Len(vec))>> \o vec

\* filepath.Join(dir, key+".bin"), and path + ".tmp" when tmp.
CachePath(kind, key, tmp) == [kind |-> kind, key |-> key, tmp |-> tmp]

KeyOf(kind, model, text) ==
    IF kind = "app" THEN cacheKey(text, model) ELSE ortCacheKey(model, text)

HasFile(path) == \E f \in disk : f.path = path
WordsAt(path) == (CHOOSE f \in disk : f.path = path).words

\* binary.LittleEndian.Uint32(data[:4]); bytes never written read as zero.
Declared(words) == IF words[1].k = "len" THEN words[1].i ELSE 0

\* embedCache.load: a missing file is a miss, a file shorter than its header
\* announces is an error, anything else is a hit on the announced floats.
load(path) ==
    IF ~HasFile(path) THEN [err |-> FALSE, ok |-> FALSE, vec |-> <<>>]
    ELSE LET data == WordsAt(path)
         IN  IF Len(data) < 1 THEN [err |-> TRUE, ok |-> FALSE, vec |-> <<>>]
             ELSE IF Len(data) < 1 + Declared(data)
             THEN [err |-> TRUE, ok |-> FALSE, vec |-> <<>>]
             ELSE [err |-> FALSE, ok |-> TRUE,
                   vec |-> SubSeq(data, 2, 1 + Declared(data))]

\* OrtEmbedder.loadFromDisk: an error unless the bytes after the header are
\* exactly the announced floats.
loadFromDisk(path) ==
    IF ~HasFile(path) THEN [err |-> TRUE, ok |-> FALSE, vec |-> <<>>]
    ELSE LET data == WordsAt(path)
         IN  IF Len(data) < 1 THEN [err |-> TRUE, ok |-> FALSE, vec |-> <<>>]
             ELSE IF Len(data) - 1 # Declared(data)
             THEN [err |-> TRUE, ok |-> FALSE, vec |-> <<>>]
             ELSE [err |-> FALSE, ok |-> TRUE, vec |-> Tail(data)]

\* What a lookup finds at the final path.
SeenAt(path) ==
    IF ~HasFile(path) THEN "absent"
    ELSE IF Len(WordsAt(path)) < 1 THEN "short"
    ELSE IF Len(WordsAt(path)) - 1 = Declared(WordsAt(path)) THEN "match"
    ELSE "mismatch"

\* A write of one word at a file offset; a gap is filled with zero bytes.
PutWord(words, pos, x) ==
    IF pos <= Len(words) THEN [words EXCEPT ![pos] = x]
    ELSE words \o [i \in 1..(pos - 1 - Len(words)) |-> ZeroWord] \o <<x>>

\* NewService / newOrtEmbedder: a process starts with an empty memory cache;
\* its model id is the base name of its model file.
CacheStart(p) ==
    /\ insts[p].pc = "down"
    /\ \E kind \in CacheKinds, model \in CacheModels :
         insts' = [insts EXCEPT ![p] =
                      [InstDown EXCEPT !.kind = kind, !.model = model, !.pc = "idle"]]
    /\ UNCHANGED <<disk, crashes, calls, nonDiskVars>>

\* EmbedCached / EmbedText is called with a normalized text.
CacheCall(p) ==
    /\ insts[p].pc = "idle"
    /\ calls < MaxCalls
    /\ calls' = calls + 1
    /\ \E text \in CacheTexts :
         insts' = [insts EXCEPT ![p] =
                      [@ EXCEPT !.pc = "lookup", !.text = text,
                                !.key = KeyOf(insts[p].kind, insts[p].model, text),
                                !.seen = "", !.encoded = FALSE, !.ok = FALSE,
                                !.vec = <<>>]]
    /\ UNCHANGED <<disk, crashes, nonDiskVars>>

\* The memory tier, then the file: EmbedCached returns load's error,
\* EmbedText goes on to the encoder on any error of loadFromDisk.
CacheLookup(p) ==
    LET me == insts[p]
        path == CachePath(me.kind, me.key, FALSE)
    IN  /\ me.pc = "lookup"
        /\ IF CacheHas(me.mem, me.key)
           THEN insts' = [insts EXCEPT ![p] =
                             [@ EXCEPT !.pc = "ret", !.ok = TRUE, !.seen = "mem",
                                       !.vec = CacheGet(me.mem, me.key)]]
           ELSE \E r \in {IF me.kind = "app" THEN load(path) ELSE loadFromDisk(path)} :
                  insts' = [insts EXCEPT ![p] =
                     IF r.ok
                     THEN [@ EXCEPT !.pc = "ret", !.ok = TRUE, !.vec = r.vec,
                                    !.seen = SeenAt(path),
                                    !.mem = CachePut(@, me.key, r.vec)]
                     ELSE IF r.err /\ me.kind = "app"
                     THEN [@ EXCEPT !.pc = "ret", !.ok = FALSE, !.seen = SeenAt(path)]
                     ELSE [@ EXCEPT !.pc = "encode", !.seen = SeenAt(path)]]
        /\ UNCHANGED <<disk, crashes, calls, nonDiskVars>>

\* v, err := s.emb.Encode(text); s.cache.put(key, v).
CacheEncode(p) ==
    LET me == insts[p]
    IN  /\ me.pc = "encode"
        /\ \E v \in {EncodeVec(me.model, me.text)} :
             insts' = [insts EXCEPT ![p] =
                          [@ EXCEPT !.pc = "open", !.ok = TRUE, !.encoded = TRUE,
                                    !.vec = v, !.mem = CachePut(@, me.key, v),
                                    !.buf = FileImage(v)]]
        /\ UNCHANGED <<disk, crashes, calls, nonDiskVars>>

\* os.WriteFile opens with O_CREATE and O_TRUNC: save opens the final path,
\* saveToDisk the path with ".tmp".
CacheOpen(p) ==
    LET me == insts[p]
        target == CachePath(me.kind, me.key, me.kind = "ort")
    IN  /\ me.pc = "open"
        /\ disk' = {f \in disk : f.path # target} \cup {[path |-> target, words |-> <<>>]}
        /\ insts' = [insts EXCEPT ![p] = [@ EXCEPT !.pc = "write", !.fd = <<target>>,
                                                   !.pos = 1]]
        /\ UNCHANGED <<crashes, calls, nonDiskVars>>

\* The bytes reach the file a word at a time; after the last one the file
\* is closed, save returns and saveToDisk goes on to rename.
CacheWrite(p) ==
    LET me == insts[p]
        last == me.pos = Len(me.buf)
    IN  /\ me.pc = "write"
        /\ disk' = IF me.fd # <<>> /\ HasFile(me.fd[1])
                   THEN {f \in disk : f.path # me.fd[1]} \cup
                        {[path |-> me.fd[1],
                          words |-> PutWord(WordsAt(me.fd[1]), me.pos, me.buf[me.pos])]}
                   ELSE disk
        /\ insts' = [insts EXCEPT ![p] =
                        IF last
                        THEN [@ EXCEPT !.pc = IF me.kind = "ort" THEN "rename" ELSE "ret",
                                       !.fd = <<>>, !.pos = 0, !.buf = <<>>]
                        ELSE [@ EXCEPT !.pos = @ + 1]]
        /\ UNCHANGED <<crashes, calls, nonDiskVars>>

\* os.Rename(tmp, path): the file at tmp replaces the one at path; open
\* files follow their file.  Without a file at tmp it fails, and EmbedText
\* drops the error.
CacheRename(p) ==
    LET me == insts[p]
        tmp == CachePath(me.kind, me.key, TRUE)
        path == CachePath(me.kind, me.key, FALSE)
    IN  /\ me.pc = "rename"
        /\ IF HasFile(tmp)
           THEN /\ disk' = {f \in disk : f.path \notin {tmp, path}} \cup
                           {[path |-> path, words |-> WordsAt(tmp)]}
                /\ insts' = [q \in Procs |->
                               IF q = p THEN [me EXCEPT !.pc = "ret"]
                               ELSE IF insts[q].fd = <<tmp>>
                               THEN [insts[q] EXCEPT !.fd = <<path>>]
                               ELSE IF insts[q].fd = <<path>>
                               THEN [insts[q] EXCEPT !.fd = <<>>]
                               ELSE insts[q]]
           ELSE /\ disk' = disk
                /\ insts' = [insts EXCEPT ![p] = [@ EXCEPT !.pc = "ret"]]
        /\ UNCHANGED <<crashes, calls, nonDiskVars>>

\* The call returns its vector or its error.
CacheReturn(p) ==
    /\ insts[p].pc = "ret"
    /\ insts' = [insts EXCEPT ![p] = [@ EXCEPT !.pc = "idle"]]
    /\ UNCHANGED <<disk, crashes, calls, nonDiskVars>>

\* The process dies: its memory and its open file are gone, the files stay
\* as they are.
CacheCrash(p) ==
    /\ insts[p].pc # "down"
    /\ crashes < MaxCrashes
    /\ insts' = [insts EXCEPT ![p] = InstDown]
    /\ crashes' = crashes + 1
    /\ UNCHANGED <<disk, calls, nonDiskVars>>

(***************************************************************************)
(* SpecCache: two processes, each of either kind and with either model,    *)
(* embed texts concurrently over the shared cache directories and may      *)
(* crash and start again.                                                  *)
(***************************************************************************)
InitCache ==
    /\ IdleIdx
    /\ IdleCfg
    /\ IdleRank
    /\ IdleReview
    /\ IdleApp
    /\ IdleBatch
    /\ IdlePure
    /\ IdleEmb
    /\ IdleLoad
    /\ IdleRule
    /\ insts = [p \in Procs |-> InstDown]
    /\ disk = {}
    /\ crashes = 0
    /\ calls = 0

NextCache ==
    \E p \in Procs :
        \/ CacheStart(p) \/ CacheCall(p) \/ CacheLookup(p) \/ CacheEncode(p)
        \/ CacheOpen(p) \/ CacheWrite(p) \/ CacheRename(p) \/ CacheReturn(p)
        \/ CacheCrash(p)

SpecCache == InitCache /\ [][NextCache]_vars

Returned(p) == insts[p].pc = "ret"

\* C18: a call under model id M never returns a vector that was stored
\* under another model id: every float of a returned vector was encoded by
\* the caller's model.
C18_NoVectorOfOtherModel ==
    \A p \in Procs :
        Returned(p) /\ insts[p].ok =>
            \A i \in DOMAIN insts[p].vec :
                insts[p].vec[i].k = "f" => insts[p].vec[i].m = insts[p].model

\* A whole cache file: the count and exactly that many floats of one vector.
WholeFile(words) ==
    \E model \in CacheModels, text \in CacheTexts :
        words = FileImage(EncodeVec(model, text))

\* C19: no partially written file is ever at a final path, neither while
\* another process may read it nor after a crash.
C19_NoPartialFileAtFinalPath ==
    \A f \in disk : ~f.path.tmp => WholeFile(f.words)

\* C20: a call that finds a cache file whose count disagrees with the words
\* after the header treats it as a miss, encodes the text again and succeeds.
C20_MismatchIsMiss ==
    \A p \in Procs :
        Returned(p) /\ insts[p].seen = "mismatch" =>
            /\ insts[p].ok
            /\ insts[p].encoded
            /\ insts[p].vec = EncodeVec(insts[p].model, insts[p].text)


\* C21: a call that finds a cache file shorter than its 4-byte header
\* returns an error to its caller; the file is not taken for a miss and the
\* text is not encoded again.
C21_ShortHeaderIsError ==
    \A p \in Procs :
        insts[p].seen = "short" /\ insts[p].pc \notin {"lookup", "idle", "down"} =>
            /\ insts[p].pc = "ret"
            /\ ~insts[p].ok
            /\ ~insts[p].encoded



(***************************************************************************)
(* One embedder inside one process, called by several goroutines: the      *)
(* in-memory cache under its mutex.  kind "app" is app.Service.EmbedCached *)
(* over embedCache (get, load, put, save), kind "ort" is                   *)
(* OrtEmbedder.EmbedText (getFromCache, loadFromDisk, storeInMemory,       *)
(* saveToDisk) with Close.  Every []float32 the code allocates gets a      *)
(* number (emb.allocs), so that an entry tells which slice it holds.  The  *)
(* cache files are whole here; their bytes are the subject of SpecCache.   *)
(***************************************************************************)
MaxEmbedCalls == 3

EmbModel == "m"

MemHas(mem, key) == \E e \in mem : e.key = key
MemGet(mem, key) == CHOOSE e \in mem : e.key = key

\* c.m[key] = v and o.memCache[key] = cloneVector(vec): a plain map
\* assignment, whatever the map holds for the key.
put(mem, key, vec, slice) ==
    {e \in mem : e.key # key} \cup {[key |-> key, vec |-> vec, slice |-> slice]}

Alive == \A g \in Gors : gor[g].pc # "panic"

\* EmbedCached computes the key; EmbedText first tests o.enc == nil, without
\* the mutex, and returns "embedder is not initialized".
EmbedStart(g) ==
    /\ Alive
    /\ gor[g].pc = "idle"
    /\ emb.started < MaxEmbedCalls
    /\ \E text \in CacheTexts :
         gor' = [gor EXCEPT ![g] =
                    IF emb.kind = "ort" /\ emb.enc = "nil"
                    THEN [NoGor EXCEPT !.pc = "ret", !.text = text]
                    ELSE [NoGor EXCEPT !.pc = "get", !.text = text,
                                       !.key = KeyOf(emb.kind, EmbModel, text)]]
    /\ emb' = [emb EXCEPT !.started = @ + 1]
    /\ UNCHANGED nonEmbVars

\* get returns the slice of the entry, getFromCache a clone of it; a read
\* of the nil map Close leaves behind finds nothing.
EmbedGet(g) ==
    LET me == gor[g]
    IN  /\ Alive
        /\ me.pc = "get"
        /\ IF MemHas(emb.mem, me.key)
           THEN \E e \in {MemGet(emb.mem, me.key)} :
                  IF emb.kind = "app"
                  THEN /\ gor' = [gor EXCEPT ![g] =
                                     [@ EXCEPT !.pc = "ret", !.ok = TRUE, !.from = "mem",
                                               !.vec = e.vec, !.slice = e.slice]]
                       /\ emb' = emb
                  ELSE /\ gor' = [gor EXCEPT ![g] =
                                     [@ EXCEPT !.pc = "ret", !.ok = TRUE, !.from = "mem",
                                               !.vec = e.vec, !.slice = emb.allocs + 1]]
                       /\ emb' = [emb EXCEPT !.allocs = @ + 1]
           ELSE /\ gor' = [gor EXCEPT ![g] = [@ EXCEPT !.pc = "load"]]
                /\ emb' = emb
        /\ UNCHANGED nonEmbVars

\* load and loadFromDisk: a saved vector is read into a new slice.
EmbedLoad(g) ==
    LET me == gor[g]
    IN  /\ Alive
        /\ me.pc = "load"
        /\ IF me.key \in emb.files
           THEN /\ gor' = [gor EXCEPT ![g] =
                              [@ EXCEPT !.pc = "store", !.from = "file",
                                        !.vec = EncodeVec(EmbModel, me.text),
                                        !.slice = emb.allocs + 1]]
                /\ emb' = [emb EXCEPT !.allocs = @ + 1]
           ELSE /\ gor' = [gor EXCEPT ![g] = [@ EXCEPT !.pc = "encode"]]
                /\ emb' = emb
        /\ UNCHANGED nonEmbVars

\* s.emb.Encode(text) and o.enc.Encode(normalized).  After Close o.enc is
\* nil: the call on the nil *emb.Encoder, a type of another module, either
\* returns an error or panics.
EmbedEncode(g) ==
    LET me == gor[g]
    IN  /\ Alive
        /\ me.pc = "encode"
        /\ IF emb.enc = "nil"
           THEN /\ \E next \in {"ret", "panic"} :
                     gor' = [gor EXCEPT ![g] = [@ EXCEPT !.pc = next, !.ok = FALSE]]
                /\ emb' = emb
           ELSE /\ gor' = [gor EXCEPT ![g] =
                              [@ EXCEPT !.pc = "store", !.from = "enc",
                                        !.vec = EncodeVec(EmbModel, me.text),
                                        !.slice = emb.allocs + 1]]
                /\ emb' = [emb EXCEPT !.allocs = @ + 1]
        /\ UNCHANGED nonEmbVars

\* put stores the slice itself, storeInMemory a clone; an assignment to an
\* entry of a nil map panics.
EmbedStore(g) ==
    LET me == gor[g]
    IN  /\ Alive
        /\ me.pc = "store"
        /\ IF emb.released
           THEN /\ gor' = [gor EXCEPT ![g] = [@ EXCEPT !.pc = "panic", !.ok = FALSE]]
                /\ emb' = emb
           ELSE /\ gor' = [gor EXCEPT ![g] =
                              [@ EXCEPT !.pc = IF me.from = "file" THEN "ret" ELSE "save",
                                        !.ok = TRUE,
                                        !.slice = IF emb.kind = "app" THEN @
                                                  ELSE emb.allocs + 2]]
                /\ emb' = IF emb.kind = "app"
                          THEN [emb EXCEPT !.mem = put(@, me.key, me.vec, me.slice)]
                          ELSE [emb EXCEPT !.mem = put(@, me.key, me.vec, emb.allocs + 1),
                                           !.allocs = @ + 2]
        /\ UNCHANGED nonEmbVars

\* save and saveToDisk; an error of either is dropped.
EmbedSave(g) ==
    /\ Alive
    /\ gor[g].pc = "save"
    /\ gor' = [gor EXCEPT ![g] = [@ EXCEPT !.pc = "ret"]]
    /\ emb' = [emb EXCEPT !.files = @ \cup {gor[g].key}]
    /\ UNCHANGED nonEmbVars

EmbedReturn(g) ==
    /\ Alive
    /\ gor[g].pc = "ret"
    /\ gor' = [gor EXCEPT ![g] = [@ EXCEPT !.pc = "idle"]]
    /\ UNCHANGED <<emb, nonEmbVars>>

\* Close, under o.mu: o.enc.Close(), o.enc = nil, o.memCache = nil.
Close ==
    /\ Alive
    /\ emb.kind = "ort"
    /\ emb.enc # "nil"
    /\ emb' = [emb EXCEPT !.enc = "nil", !.released = TRUE, !.mem = {}]
    /\ UNCHANGED <<gor, nonEmbVars>>

(***************************************************************************)
(* SpecEmbed: an embedder of either kind over a cache directory that may   *)
(* hold vectors of earlier runs, called by two goroutines and, if it is an *)
(* OrtEmbedder, closed at any moment.                                      *)
(***************************************************************************)
InitEmbed ==
    /\ IdleIdx
    /\ IdleCfg
    /\ IdleRank
    /\ IdleReview
    /\ IdleApp
    /\ IdleBatch
    /\ IdlePure
    /\ IdleDisk
    /\ IdleLoad
    /\ IdleRule
    /\ \E kind \in CacheKinds,
          files \in SUBSET {KeyOf(k, EmbModel, t) : k \in CacheKinds, t \in CacheTexts} :
         /\ \A key \in files : \E t \in CacheTexts : key = KeyOf(kind, EmbModel, t)
         /\ emb = [NoEmb EXCEPT !.kind = kind, !.enc = "open", !.files = files]
    /\ gor = [g \in Gors |-> NoGor]

NextEmbed ==
    \/ \E g \in Gors :
          \/ EmbedStart(g) \/ EmbedGet(g) \/ EmbedLoad(g) \/ EmbedEncode(g)
          \/ EmbedStore(g) \/ EmbedSave(g) \/ EmbedReturn(g)
    \/ Close

SpecEmbed == InitEmbed /\ [][NextEmbed]_vars

\* C22: the in-memory cache entry of a key is created at most once: once
\* the cache holds an entry for a key, no step replaces it with another
\* slice, also when several goroutines missed on the key and each encoded.
C22_EntryNeverOverwritten ==
    [][\A e \in emb.mem : \A f \in emb'.mem : f.key = e.key => f = e]_vars

\* What does hold: the entry of a key never changes its vector.
EntryKeepsVector ==
    [][\A e \in emb.mem : \A f \in emb'.mem : f.key = e.key => f.vec = e.vec]_vars


\* C30: an EmbedText call that runs concurrently with or after Close of the
\* same OrtEmbedder returns a vector or an error: it never panics and never
\* assigns into the memory cache Close has released.
C30_NoPanicAfterClose ==
    emb.kind = "ort" => \A g \in Gors : gor[g].pc # "panic"



(***************************************************************************)
(* Loading labels.  categorizer.Service.LoadSeeds runs in a goroutine of   *)
(* its own for every request of the GUI (applySeeds); app.Service takes    *)
(* its categories in UpdateCategories; the first GUI's service fills both  *)
(* stores in buildCandidates.  An embedding is the encoder's result:       *)
(* whether it comes from a cache changes neither the vector nor the error. *)
(***************************************************************************)
MaxSeedJobs == 2

\* The label lists a request carries: case and width variants of one label,
\* blanks, and a label the encoder rejects.
SeedRequests ==
    {<<>>, <<"x">>, <<"y">>, <<"x", "X">>, <<"X", "x">>, <<"x", "x.fw">>,
     <<"x", "y">>, <<"x", "bad">>, <<" ", "y">>}

\* normalize (internal/app/textutil.go): trim, NFKC, single spaces; the
\* case is kept.
normalize(s) == NormalizeText(s)

\* uniqueNormalized: the normalized labels, each once, in input order.
RECURSIVE uniqueNormalized(_, _)
uniqueNormalized(labels, seen) ==
    IF Len(labels) = 0 THEN <<>>
    ELSE LET normed == normalize(labels[1])
         IN  IF normed = "" \/ normed \in seen
             THEN uniqueNormalized(Tail(labels), seen)
             ELSE <<normed>> \o uniqueNormalized(Tail(labels), seen \cup {normed})

\* The error of embedLabelSet: EmbedCached fails for a label that is not
\* skipped.
RECURSIVE embedLabelSetErr(_, _)
embedLabelSetErr(labels, seen) ==
    IF Len(labels) = 0 THEN FALSE
    ELSE LET display == normalize(labels[1])
             key == normalizeKey(display)
         IN  IF display = "" \/ key = "" \/ key \in seen
             THEN embedLabelSetErr(Tail(labels), seen)
             ELSE \/ EncodeFails(normalizeText(display))
                  \/ embedLabelSetErr(Tail(labels), seen \cup {key})

\* The first loop of LoadSeeds: trim, drop blanks, NormalizeText, and drop
\* what NormalizeText has already produced.
RECURSIVE cleanSeeds(_, _)
cleanSeeds(seeds, seen) ==
    IF Len(seeds) = 0 THEN <<>>
    ELSE LET normalized == NormalizeText(seeds[1])
         IN  IF normalized = "" \/ normalized \in seen
             THEN cleanSeeds(Tail(seeds), seen)
             ELSE <<normalized>> \o cleanSeeds(Tail(seeds), seen \cup {normalized})

\* EmbedTexts fails when the encoder rejects one of the texts.
EmbedTextsErr(texts) == \E i \in DOMAIN texts : EncodeFails(NormalizeText(texts[i]))

seedItems(cleaned) ==
    [i \in DOMAIN cleaned |->
        [Label |-> cleaned[i], Source |-> "seed",
         Vector |-> Encode(NormalizeText(cleaned[i]))]]

\* applySeeds: go func(items) { service.LoadSeeds(ctx, items) ... }(list).
ApplySeeds ==
    /\ loader = "cat"
    /\ Len(jobs) < MaxSeedJobs
    /\ \E seeds \in SeedRequests :
         jobs' = Append(jobs, [seeds |-> seeds, pc |-> "embed", items |-> <<>>])
    /\ UNCHANGED <<loader, upd, build, nonLoadVars>>

\* LoadSeeds up to its Replace: an empty cleaned list clears the index at
\* once, an embedding error returns before the index is touched.
LoadSeedsEmbed(j) ==
    /\ loader = "cat"
    /\ jobs[j].pc = "embed"
    /\ \E cleaned \in {cleanSeeds(jobs[j].seeds, {})} :
         IF Len(cleaned) = 0
         THEN /\ seedsIdx' = <<>>
              /\ jobs' = [jobs EXCEPT ![j].pc = "done"]
         ELSE IF EmbedTextsErr(cleaned)
         THEN /\ jobs' = [jobs EXCEPT ![j].pc = "failed"]
              /\ UNCHANGED seedsIdx
         ELSE /\ jobs' = [jobs EXCEPT ![j].pc = "replace",
                                      ![j].items = seedItems(cleaned)]
              /\ UNCHANGED seedsIdx
    /\ UNCHANGED <<loader, upd, build, ndcIdx, catRow, idxVars, cfgVars, revVars,
                   appVars, batVars, pureVars, diskVars, embVars, ruleVars>>

\* s.seedsIdx.Replace(items).
LoadSeedsReplace(j) ==
    /\ loader = "cat"
    /\ jobs[j].pc = "replace"
    /\ seedsIdx' = jobs[j].items
    /\ jobs' = [jobs EXCEPT ![j].pc = "done"]
    /\ UNCHANGED <<loader, upd, build, ndcIdx, catRow, idxVars, cfgVars, revVars,
                   appVars, batVars, pureVars, diskVars, embVars, ruleVars>>

\* app.Service.UpdateCategories: the stores are assigned under s.mu after
\* embedLabelSet has returned without error.
UpdateCategories ==
    /\ loader = "app"
    /\ upd.n < MaxSeedJobs
    /\ \E labels \in SeedRequests :
         \E sanitized \in {uniqueNormalized(labels, {})} :
            IF embedLabelSetErr(sanitized, {})
            THEN /\ upd' = [labels |-> labels, err |-> TRUE, n |-> upd.n + 1,
                            before |-> candsCat]
                 /\ UNCHANGED candsCat
            ELSE /\ upd' = [labels |-> labels, err |-> FALSE, n |-> upd.n + 1,
                            before |-> candsCat]
                 /\ candsCat' = embedLabelSet(sanitized, "seed", {})
    /\ UNCHANGED <<loader, jobs, build, candsNDC, cacheMem, cacheFiles, call,
                   idxVars, cfgVars, rankVars, revVars, batVars, pureVars, diskVars,
                   embVars, ruleVars>>

\* The candidates one goroutine of buildCandidates collects.
buildLocal(labels, source) ==
    [i \in DOMAIN labels |->
        [Label |-> normalize(labels[i]), Vec |-> Encode(normalize(labels[i])),
         Source |-> source]]

buildErr(labels) == \E i \in DOMAIN labels : EncodeFails(normalize(labels[i]))

\* NewService of the first GUI calls buildCandidates, which starts its two
\* goroutines.
BuildStart ==
    /\ loader = "v0"
    /\ build.pc = "none"
    /\ \E userCats \in {<<"x">>, <<"x", "y">>, <<"x", "bad">>},
          ndc \in {<<"y">>, <<"bad">>} :
         build' = [NoBuild EXCEPT !.pc = "wait", !.userCats = userCats, !.ndc = ndc,
                                  !.cat = "run", !.ndcG = "run"]
    /\ UNCHANGED <<loader, jobs, upd, nonLoadVars>>

\* The goroutine of the user categories: on an error it sets firstErr and
\* returns, otherwise s.candsCat = local.
BuildCat ==
    /\ loader = "v0"
    /\ build.cat = "run"
    /\ build' = IF buildErr(build.userCats)
                THEN [build EXCEPT !.cat = "err", !.firstErr = TRUE]
                ELSE [build EXCEPT !.cat = "ok",
                                   !.candsCat = buildLocal(build.userCats, "cat")]
    /\ UNCHANGED <<loader, jobs, upd, nonLoadVars>>

\* The goroutine of the taxonomy: the same over ndc, into s.candsNDC.
BuildNDC ==
    /\ loader = "v0"
    /\ build.ndcG = "run"
    /\ build' = IF buildErr(build.ndc)
                THEN [build EXCEPT !.ndcG = "err", !.firstErr = TRUE]
                ELSE [build EXCEPT !.ndcG = "ok",
                                   !.candsNDC = buildLocal(build.ndc, "ndc")]
    /\ UNCHANGED <<loader, jobs, upd, nonLoadVars>>

\* wg.Wait(); return firstErr.
BuildReturn ==
    /\ loader = "v0"
    /\ build.pc = "wait"
    /\ build.cat # "run"
    /\ build.ndcG # "run"
    /\ build' = [build EXCEPT !.pc = "returned"]
    /\ UNCHANGED <<loader, jobs, upd, nonLoadVars>>

(***************************************************************************)
(* SpecSeeds: one of the three services loads labels: reload requests of   *)
(* the GUI that overlap, UpdateCategories calls, or buildCandidates.       *)
(***************************************************************************)
InitSeeds ==
    /\ IdleIdx
    /\ IdleCfg
    /\ IdleRank
    /\ IdleReview
    /\ IdleApp
    /\ IdleBatch
    /\ IdlePure
    /\ IdleDisk
    /\ IdleEmb
    /\ IdleRule
    /\ loader \in {"cat", "app", "v0"}
    /\ jobs = <<>>
    /\ upd = NoUpd
    /\ build = NoBuild

NextSeeds ==
    \/ ApplySeeds
    \/ \E j \in DOMAIN jobs : LoadSeedsEmbed(j) \/ LoadSeedsReplace(j)
    \/ UpdateCategories
    \/ BuildStart \/ BuildCat \/ BuildNDC \/ BuildReturn

SpecSeeds == InitSeeds /\ [][NextSeeds]_vars

\* Labels of a store whose case- and width-normalized keys are all different.
DistinctKeys(labels) ==
    \A i, j \in DOMAIN labels :
        i # j => normalizeKey(labels[i]) # normalizeKey(labels[j])

\* C23: after a seed load the seed store holds no two candidates with the
\* same case- and width-normalized key: of the labels that normalize to one
\* key only the first is kept.
C23_SeedKeysDistinct ==
    /\ DistinctKeys([i \in DOMAIN seedsIdx |-> seedsIdx[i].Label])
    /\ DistinctKeys([i \in DOMAIN candsCat |-> candsCat[i].Label])
    /\ \A i, j \in DOMAIN candsCat : i # j => candsCat[i].Key # candsCat[j].Key

\* The part of it that app.Service keeps: the keys of candsCat differ, and
\* each candidate is the first label of the request with its key.
AppSeedKeysDistinct ==
    loader = "app" /\ upd.n > 0 /\ ~upd.err =>
        /\ \A i, j \in DOMAIN candsCat : i # j => candsCat[i].Key # candsCat[j].Key
        /\ \A i \in DOMAIN candsCat :
              \E k \in DOMAIN upd.labels :
                 /\ normalize(upd.labels[k]) = candsCat[i].Label
                 /\ \A m \in 1..(k - 1) :
                       normalizeKey(normalize(upd.labels[m])) # candsCat[i].Key


\* What the index holds after LoadSeeds(seeds) has succeeded.
LoadedSeeds(seeds) ==
    LET cleaned == cleanSeeds(seeds, {})
    IN  IF Len(cleaned) = 0 THEN <<>> ELSE seedItems(cleaned)

JobsFinished == \A j \in DOMAIN jobs : jobs[j].pc \in {"done", "failed"}

\* C27: when several reload requests were issued one after another and all
\* have finished, the seed index holds the seeds of the request issued
\* last: a LoadSeeds of an older request that finishes later does not
\* overwrite them.
C27_LatestRequestWins ==
    /\ loader = "cat"
    /\ Len(jobs) > 0
    /\ JobsFinished
    /\ jobs[Len(jobs)].pc = "done"
    => seedsIdx = LoadedSeeds(jobs[Len(jobs)].seeds)

\* C29: a load that fails on an embedding error leaves the candidate stores
\* as they were before it: LoadSeeds does not touch the seed index,
\* UpdateCategories does not touch candsCat, and buildCandidates leaves
\* candsCat and candsNDC both as they were (empty).
C29_FailedLoadChangesNothing ==
    /\ [](upd.err => candsCat = upd.before)
    /\ [](build.pc = "returned" /\ build.firstErr =>
             build.candsCat = <<>> /\ build.candsNDC = <<>>)
    /\ [][\A j \in DOMAIN jobs :
             jobs[j].pc = "embed" /\ jobs'[j].pc = "failed" => seedsIdx' = seedsIdx]_vars

\* The same without buildCandidates.
FailedReloadChangesNothing ==
    /\ [](upd.err => candsCat = upd.before)
    /\ [][\A j \in DOMAIN jobs :
             jobs[j].pc = "embed" /\ jobs'[j].pc = "failed" => seedsIdx' = seedsIdx]_vars


\* C24: a ranking call for a text that normalizes to the empty string gives
\* no error and a row that needs review and has empty suggestion lists.
\* (The row of categorizer.Service has no review flag; its lists are what
\* can be asked of it.)
C24_EmptyTextNeedsReview ==
    /\ BatchReturned
    /\ batch.driver \in {"app", "cat"}
    /\ \A i \in DOMAIN batch.texts : ~RankFails(batch.texts[i])
    => /\ ~batch.out.err
       /\ \A i \in DOMAIN batch.texts :
             normalizeText(batch.texts[i]) = "" =>
                /\ batch.out.rows[i].Suggestions = <<>>
                /\ batch.out.rows[i].NDCSuggestions = <<>>
                /\ batch.driver = "app" =>
                      /\ batch.out.rows[i].NeedReview
                      /\ batch.out.rows[i].SeedSuggestions = <<>>

\* The same of app.Service alone.
AppEmptyTextNeedsReview ==
    BatchReturned /\ batch.driver = "app" /\ ~batch.out.err =>
        \A i \in DOMAIN batch.texts :
            normalizeText(batch.texts[i]) = "" =>
                /\ batch.out.rows[i].Suggestions = <<>>
                /\ batch.out.rows[i].SeedSuggestions = <<>>
                /\ batch.out.rows[i].NDCSuggestions = <<>>
                /\ batch.out.rows[i].NeedReview



(***************************************************************************)
(* SpecCosine: the two similarity functions on vectors of any two lengths. *)
(* A Go index out of range is a run-time panic.                            *)
(***************************************************************************)
MaxVecLen == 2

CosineVecs == UNION {[1..n -> {0, 1, 2}] : n \in 0..MaxVecLen}

\* for i := range a { af, bf := a[i], b[i] ... }: b is indexed over the
\* whole range of a.
cosine32Panics(a, b) == Len(b) < Len(a)

CosineCall ==
    /\ fnCall.op \in {"cosine32", "cosineSimilarity"}
    /\ ~fnCall.out.done
    /\ \E a \in {fnCall.args.a}, b \in {fnCall.args.b} :
         fnCall' = [fnCall EXCEPT !.out =
            IF fnCall.op = "cosineSimilarity"
            THEN [done |-> TRUE, panic |-> FALSE, val |-> cosineSimilarity(a, b)]
            ELSE IF cosine32Panics(a, b)
            THEN [done |-> TRUE, panic |-> TRUE, val |-> 0]
            ELSE [done |-> TRUE, panic |-> FALSE, val |-> cosine32(a, b)]]
    /\ UNCHANGED nonPureVars

InitCosine ==
    /\ IdleIdx
    /\ IdleCfg
    /\ IdleRank
    /\ IdleReview
    /\ IdleApp
    /\ IdleBatch
    /\ IdleDisk
    /\ IdleEmb
    /\ IdleLoad
    /\ IdleRule
    /\ \E op \in {"cosine32", "cosineSimilarity"}, a \in CosineVecs, b \in CosineVecs :
         fnCall = [op |-> op, args |-> [a |-> a, b |-> b],
                   out |-> [done |-> FALSE, panic |-> FALSE, val |-> 0]]

NextCosine == CosineCall

SpecCosine == InitCosine /\ [][NextCosine]_vars

\* The cosine of two vectors of one length, with 0 for a zero norm.
CosineOfEqual(a, b) ==
    LET dot == DotN(a, b, Len(a))
        na == DotN(a, a, Len(a))
        nb == DotN(b, b, Len(a))
    IN  IF na = 0 \/ nb = 0 THEN 0
        ELSE (dot * Scale * Scale * Scale) \div (sqrtFloat64(na) * sqrtFloat64(nb))

\* C25: comparing two vectors of different lengths does not fail: the
\* similarity is that of their first min(len(a), len(b)) components,
\* whichever of the two is the shorter.
C25_ShorterLengthDecides ==
    fnCall.out.done =>
        LET n == Min(Len(fnCall.args.a), Len(fnCall.args.b))
        IN  /\ ~fnCall.out.panic
            /\ fnCall.out.val = CosineOfEqual(SubSeq(fnCall.args.a, 1, n),
                                              SubSeq(fnCall.args.b, 1, n))

\* The same of cosineSimilarity alone, and of cosine32 when b is not the
\* shorter vector.
CosineWhenDefined ==
    fnCall.out.done /\ (fnCall.op = "cosineSimilarity"
                        \/ Len(fnCall.args.a) <= Len(fnCall.args.b)) =>
        LET n == Min(Len(fnCall.args.a), Len(fnCall.args.b))
        IN  /\ ~fnCall.out.panic
            /\ fnCall.out.val = CosineOfEqual(SubSeq(fnCall.args.a, 1, n),
                                              SubSeq(fnCall.args.b, 1, n))


\* The default thresholds: top1 0.45, margin12 0.03, mean 0.50.
DefaultThresh == [Top1 |-> 45, Margin12 |-> 3, Mean |-> 50]

\* needReview has been computed for the scores [0.9, 0.2] under the
\* default thresholds.
ReviewedExample ==
    /\ review.variant # "none"
    /\ review.thresh = DefaultThresh
    /\ Len(review.sugs) = 2
    /\ review.sugs[1].Score = 90
    /\ review.sugs[2].Score = 20

\* C26 as stated: with the default thresholds needReview of a list with the
\* scores [0.9, 0.2] is true.
C26_ExampleNeedsReview == ReviewedExample => review.result

\* C26, amended: with the default thresholds needReview of a list with the
\* scores [0.9, 0.2] is false, for both needReview functions: 0.9 is not
\* below top1, the gap 0.7 is not below margin12 and the mean 0.55 is not
\* below mean.
C26_ExampleNotFlagged == ReviewedExample => ~review.result

C26_Witness == ReviewedExample /\ review.variant = "thresh" /\ ~review.result



(***************************************************************************)
(* The category rule file.  UpdateConfig stores the new config under the   *)
(* lock, compiles the rules of the new file outside it and stores them     *)
(* under the lock again; RankOne copies cfg and categoryRules in one read  *)
(* lock.  A rule set is named by the file it was compiled from.            *)
(***************************************************************************)
RuleFiles == {"", "r1.json", "r2.json", "gone.json"}

\* loadCompiledCategoryRules: the defaults for an empty path and for a file
\* that cannot be read, else the rules compiled from the file.
loadCompiledCategoryRules(path) ==
    IF path \in {"", "gone.json"} THEN "defaults" ELSE path

\* UpdateConfig 97-102: prevRuleFile = s.cfg.CategoryRuleFile; s.cfg = cfg.
\* With the rule file unchanged the call is over.
UpdateConfigSwap ==
    /\ cfgUpd.pc = "idle"
    /\ \E file \in RuleFiles :
         /\ ruleSvc' = [ruleSvc EXCEPT !.file = file]
         /\ cfgUpd' = IF file # ruleSvc.file
                      THEN [pc |-> "load", file |-> file, rules |-> ""]
                      ELSE NoCfgUpd
    /\ UNCHANGED <<ruleSnap, nonRuleVars>>

\* UpdateConfig 104-114: the rules are compiled, no lock held.
UpdateConfigLoad ==
    /\ cfgUpd.pc = "load"
    /\ cfgUpd' = [cfgUpd EXCEPT !.pc = "store",
                                !.rules = loadCompiledCategoryRules(cfgUpd.file)]
    /\ UNCHANGED <<ruleSvc, ruleSnap, nonRuleVars>>

\* UpdateConfig 115-117: s.categoryRules = rules under the lock.
UpdateConfigStore ==
    /\ cfgUpd.pc = "store"
    /\ ruleSvc' = [ruleSvc EXCEPT !.rules = cfgUpd.rules]
    /\ cfgUpd' = NoCfgUpd
    /\ UNCHANGED <<ruleSnap, nonRuleVars>>

\* RankOne 241-248: cfg := s.cfg; rules := s.categoryRules in one RLock.
RankSnapshotRules ==
    /\ ruleSnap' = [taken |-> TRUE, file |-> ruleSvc.file, rules |-> ruleSvc.rules]
    /\ UNCHANGED <<ruleSvc, cfgUpd, nonRuleVars>>

(***************************************************************************)
(* SpecRules: a service constructed with any rule file, reconfigured by    *)
(* one goroutine while another ranks.                                      *)
(***************************************************************************)
InitRules ==
    /\ IdleIdx
    /\ IdleCfg
    /\ IdleRank
    /\ IdleReview
    /\ IdleApp
    /\ IdleBatch
    /\ IdlePure
    /\ IdleDisk
    /\ IdleEmb
    /\ IdleLoad
    /\ \E file \in RuleFiles :
         ruleSvc = [file |-> file, rules |-> loadCompiledCategoryRules(file)]
    /\ cfgUpd = NoCfgUpd
    /\ ruleSnap = NoRuleSnap

NextRules ==
    \/ UpdateConfigSwap \/ UpdateConfigLoad \/ UpdateConfigStore
    \/ RankSnapshotRules

SpecRules == InitRules /\ [][NextRules]_vars

\* C28: config and compiled rules change as one unit: no ranking call
\* copies a config that names a new rule file together with the rules of
\* the file before it.
C28_SnapshotRulesMatchConfig ==
    ruleSnap.taken => ruleSnap.rules = loadCompiledCategoryRules(ruleSnap.file)

\* What holds: with no UpdateConfig between its two locks, the service's
\* rules are those of the file its config names.
RulesMatchWhenIdle ==
    cfgUpd.pc = "idle" => ruleSvc.rules = loadCompiledCategoryRules(ruleSvc.file)

=============================================================================
